---- MODULE Spec2Model ----
(***************************************************************************)
(* A model of file-aranger: the directory walker, the safe mover, the      *)
(* empty-directory pruner and the operations built on them (arrange,       *)
(* flatten, dedupe, archive, findEmptyFiles), run against an abstract      *)
(* POSIX file system.                                                      *)
(*                                                                         *)
(* A path is a sequence of names, a name is a sequence of characters       *)
(* ("a.txt" is <<"a", ".", "t", "x", "t">>), so that the string handling   *)
(* of the code (extname, basename, toLowerCase, the "-(2)" suffix) is      *)
(* computed and not looked up.                                             *)
(***************************************************************************)
EXTENDS Integers, Sequences, FiniteSets, TLC

VARIABLES
  fs,       \* the file system: path -> node, for every existing path
  faults,   \* the system calls that fail: a set of [call, path, code]
  order,    \* the order in which readdir returns the entries of a directory
  before,   \* the file system when the last operation was called
  call,     \* the last operation called, with its arguments
  res,      \* what the last operation returned (or that it threw)
  stack     \* the calls of walk in progress, the innermost first

vars == <<fs, faults, order, before, call, res, stack>>

-----------------------------------------------------------------------------
(* Bounds of the model.                                                    *)

\* The number of regular files in an initial tree.
MaxFiles == 2
\* The number of system calls that fail in one behaviour.
MaxFaults == 1

-----------------------------------------------------------------------------
(* Names and paths.                                                        *)

nRoot == <<"r">>
nX == <<"x">>
nY == <<"y">>
nZ == <<"z">>
nATxt == <<"a", ".", "t", "x", "t">>
nBJpg == <<"b", ".", "j", "p", "g">>
nBJPG == <<"b", ".", "J", "P", "G">>
nA2Txt == <<"a", "-", "(", "2", ")", ".", "t", "x", "t">>
nEnv == <<".", "e", "n", "v">>
nLink == <<"l">>

Root == <<nRoot>>
DirX == <<nRoot, nX>>
DirY == <<nRoot, nY>>
DirXZ == <<nRoot, nX, nZ>>

Parent(p) == SubSeq(p, 1, Len(p) - 1)
Base(p) == p[Len(p)]
Join(d, name) == Append(d, name)
IsPrefix(d, p) == Len(d) <= Len(p) /\ SubSeq(p, 1, Len(d)) = d
\* p lies strictly below directory d
Below(d, p) == Len(d) < Len(p) /\ IsPrefix(d, p)

\* The byte value of a character: what orders names in a sorted listing.
CharCode(c) ==
  CASE c = "(" -> 40 [] c = ")" -> 41 [] c = "-" -> 45 [] c = "." -> 46
    [] c = "/" -> 47 [] c = "2" -> 50 [] c = "3" -> 51 [] c = "4" -> 52
    [] c = "A" -> 65 [] c = "B" -> 66 [] c = "D" -> 68 [] c = "G" -> 71
    [] c = "I" -> 73 [] c = "J" -> 74 [] c = "P" -> 80 [] c = "T" -> 84
    [] c = "X" -> 88
    [] c = "a" -> 97 [] c = "b" -> 98 [] c = "c" -> 99 [] c = "d" -> 100
    [] c = "e" -> 101 [] c = "g" -> 103 [] c = "h" -> 104 [] c = "i" -> 105
    [] c = "j" -> 106 [] c = "l" -> 108 [] c = "m" -> 109 [] c = "n" -> 110
    [] c = "o" -> 111 [] c = "p" -> 112 [] c = "r" -> 114 [] c = "s" -> 115
    [] c = "t" -> 116 [] c = "u" -> 117 [] c = "v" -> 118 [] c = "x" -> 120
    [] c = "y" -> 121 [] c = "z" -> 122
    [] OTHER -> 63

RECURSIVE NameLess(_, _)
NameLess(a, b) ==
  IF a = <<>> THEN b # <<>>
  ELSE IF b = <<>> THEN FALSE
  ELSE IF CharCode(Head(a)) # CharCode(Head(b))
       THEN CharCode(Head(a)) < CharCode(Head(b))
       ELSE NameLess(Tail(a), Tail(b))

\* normalizePath: path.normalize drops "." and empty components (the "//"
\* of the string form); the separators are those of the sequence.
NormalizePath(p) == SelectSeq(p, LAMBDA c : c # <<".">> /\ c # <<>>)

-----------------------------------------------------------------------------
(* The file system.                                                        *)

DirNode == [kind |-> "dir", data |-> <<>>, mtime |-> 0, to |-> <<>>]
FileNode(d, t) == [kind |-> "file", data |-> d, mtime |-> t, to |-> <<>>]
LinkNode(target) == [kind |-> "link", data |-> <<>>, mtime |-> 0, to |-> target]

Exists(fsys, p) == p \in DOMAIN fsys
IsDirAt(fsys, p) == Exists(fsys, p) /\ fsys[p].kind = "dir"
IsFileAt(fsys, p) == Exists(fsys, p) /\ fsys[p].kind = "file"
FilesOf(fsys) == {p \in DOMAIN fsys : fsys[p].kind = "file"}
DirsOf(fsys) == {p \in DOMAIN fsys : fsys[p].kind = "dir"}
Children(fsys, d) == {p \in DOMAIN fsys : Len(p) = Len(d) + 1 /\ Parent(p) = d}
Size(fsys, p) == Len(fsys[p].data)

Remove(fsys, p) == [q \in DOMAIN fsys \ {p} |-> fsys[q]]
Put(fsys, p, node) == [q \in DOMAIN fsys \cup {p} |-> IF q = p THEN node ELSE fsys[q]]

Fails(call_, p) == \E f \in faults : f.call = call_ /\ f.path = p
FailCode(call_, p) == (CHOOSE f \in faults : f.call = call_ /\ f.path = p).code

Ok(fsys) == [ok |-> TRUE, code |-> "", fs |-> fsys]
Err(fsys, code) == [ok |-> FALSE, code |-> code, fs |-> fsys]

\* fs.access(p): resolves when p exists
Access(fsys, p) == Exists(fsys, p)

\* fs.mkdir(d, {recursive: true}): creates every missing ancestor; fails when a
\* component exists and is not a directory.
MkdirP(fsys, d) ==
  LET prefixes == {SubSeq(d, 1, i) : i \in 1..Len(d)}
  IN IF \E q \in prefixes : Exists(fsys, q) /\ fsys[q].kind # "dir"
     THEN Err(fsys, "EEXIST")
     ELSE Ok([q \in DOMAIN fsys \cup prefixes |->
               IF q \in DOMAIN fsys THEN fsys[q] ELSE DirNode])

\* fs.rename(src, dest) of a file: replaces an existing destination file.
Rename(fsys, src, dest) ==
  IF Fails("rename", src) THEN Err(fsys, FailCode("rename", src))
  ELSE IF ~Exists(fsys, src) \/ ~IsDirAt(fsys, Parent(dest)) THEN Err(fsys, "ENOENT")
  ELSE IF src = dest THEN Ok(fsys)
  ELSE IF IsDirAt(fsys, dest) THEN Err(fsys, "EISDIR")
  ELSE Ok(Put(Remove(fsys, src), dest, fsys[src]))

\* fs.copyFile(src, dest): overwrites dest
CopyFile(fsys, src, dest) ==
  IF Fails("copyFile", src) THEN Err(fsys, FailCode("copyFile", src))
  ELSE IF ~IsFileAt(fsys, src) \/ ~IsDirAt(fsys, Parent(dest)) THEN Err(fsys, "ENOENT")
  ELSE IF IsDirAt(fsys, dest) THEN Err(fsys, "EISDIR")
  ELSE Ok(Put(fsys, dest, fsys[src]))

\* fs.unlink(p)
Unlink(fsys, p) ==
  IF Fails("unlink", p) THEN Err(fsys, FailCode("unlink", p))
  ELSE IF ~Exists(fsys, p) THEN Err(fsys, "ENOENT")
  ELSE IF IsDirAt(fsys, p) THEN Err(fsys, "EISDIR")
  ELSE Ok(Remove(fsys, p))

\* fs.rmdir(d): only an empty directory
Rmdir(fsys, d) ==
  IF Fails("rmdir", d) THEN Err(fsys, FailCode("rmdir", d))
  ELSE IF ~IsDirAt(fsys, d) THEN Err(fsys, "ENOTDIR")
  ELSE IF Children(fsys, d) # {} THEN Err(fsys, "ENOTEMPTY")
  ELSE Ok(Remove(fsys, d))

-----------------------------------------------------------------------------
(* SafeMover: move(src, dest), utils/helper.ts.                            *)

TmpSuffix == <<".", "t", "m", "p">>
TmpOf(dest) == Join(Parent(dest), Base(dest) \o TmpSuffix)

\* The existence check of move: the try block raises in both cases (the
\* "File already exists" error when access resolves, the access error when
\* it rejects) and the empty catch clause handles whatever was raised.
\* TRUE when an error leaves the statement.
ExistsCheckThrows(fsys, dest) ==
  LET raised == IF Access(fsys, dest) THEN "File already exists" ELSE "ENOENT"
      caught == TRUE    \* catch {} : no filter on what was raised
  IN raised # "" /\ ~caught

\* A move that leaves the source behind: the copy of the fallback without
\* its unlink, in place of the rename.
MoveWithoutUnlink(fsys, src0, dest0) ==
  LET src == NormalizePath(src0)
      dest == NormalizePath(dest0)
      made == MkdirP(fsys, Parent(dest))
  IN IF ~made.ok THEN [fs |-> fsys, threw |-> TRUE, msg |-> made.code]
     ELSE LET cp == CopyFile(made.fs, src, dest)
          IN IF ~cp.ok THEN [fs |-> made.fs, threw |-> TRUE, msg |-> cp.code]
             ELSE [fs |-> cp.fs, threw |-> FALSE, msg |-> ""]

\* A move that falls back to the copy whatever made the rename fail.
MoveCopyingOnAnyFailure(fsys, src0, dest0) ==
  LET src == NormalizePath(src0)
      dest == NormalizePath(dest0)
      made == MkdirP(fsys, Parent(dest))
  IN IF ~made.ok THEN [fs |-> fsys, threw |-> TRUE, msg |-> made.code]
     ELSE
       LET rn == Rename(made.fs, src, dest)
       IN IF rn.ok THEN [fs |-> rn.fs, threw |-> FALSE, msg |-> ""]
          ELSE
            LET tmp == TmpOf(dest)
                cp == CopyFile(made.fs, src, tmp)
            IN IF ~cp.ok THEN [fs |-> made.fs, threw |-> TRUE, msg |-> cp.code]
               ELSE
                 LET rn2 == Rename(cp.fs, tmp, dest)
                 IN IF ~rn2.ok THEN [fs |-> cp.fs, threw |-> TRUE, msg |-> rn2.code]
                    ELSE
                      LET ul == Unlink(rn2.fs, src)
                      IN IF ~ul.ok THEN [fs |-> rn2.fs, threw |-> TRUE, msg |-> ul.code]
                         ELSE [fs |-> ul.fs, threw |-> FALSE, msg |-> ""]

\* move(src, dest): [fs, threw, msg]
Move(fsys, src0, dest0) ==
  LET src == NormalizePath(src0)
      dest == NormalizePath(dest0)
      made == MkdirP(fsys, Parent(dest))
  IN IF ~made.ok THEN [fs |-> fsys, threw |-> TRUE, msg |-> made.code]
     ELSE IF ExistsCheckThrows(made.fs, dest)
     THEN [fs |-> made.fs, threw |-> TRUE, msg |-> "File already exists"]
     ELSE
       LET rn == Rename(made.fs, src, dest)
       IN IF rn.ok THEN [fs |-> rn.fs, threw |-> FALSE, msg |-> ""]
          ELSE IF rn.code # "EXDEV" THEN [fs |-> made.fs, threw |-> TRUE, msg |-> rn.code]
          ELSE
            LET tmp == TmpOf(dest)
                cp == CopyFile(made.fs, src, tmp)
            IN IF ~cp.ok THEN [fs |-> made.fs, threw |-> TRUE, msg |-> cp.code]
               ELSE
                 LET rn2 == Rename(cp.fs, tmp, dest)
                 IN IF ~rn2.ok THEN [fs |-> cp.fs, threw |-> TRUE, msg |-> rn2.code]
                    ELSE
                      LET ul == Unlink(rn2.fs, src)
                      IN IF ~ul.ok THEN [fs |-> rn2.fs, threw |-> TRUE, msg |-> ul.code]
                         ELSE [fs |-> ul.fs, threw |-> FALSE, msg |-> ""]

-----------------------------------------------------------------------------
(* String helpers of the walker.                                           *)

ToLowerChar(c) ==
  CASE c = "A" -> "a" [] c = "B" -> "b" [] c = "D" -> "d" [] c = "G" -> "g"
    [] c = "I" -> "i" [] c = "J" -> "j" [] c = "P" -> "p" [] c = "T" -> "t"
    [] c = "X" -> "x" [] OTHER -> c
ToLowerCase(s) == [i \in 1..Len(s) |-> ToLowerChar(s[i])]

\* The index of the last "." of a name, 0 when there is none.
LastDot(name) ==
  LET dots == {i \in 1..Len(name) : name[i] = "."}
  IN IF dots = {} THEN 0 ELSE CHOOSE i \in dots : \A j \in dots : j <= i

\* path.extname: from the last "." on, "" when there is none or when the
\* name only starts with one (a dotfile).
ExtName(name) ==
  LET i == LastDot(name)
  IN IF i <= 1 THEN <<>> ELSE SubSeq(name, i, Len(name))

\* normalizeExt: the extension without its dot, in lower case
NormalizeExt(ext) ==
  IF ext # <<>> /\ Head(ext) = "." THEN ToLowerCase(Tail(ext)) ELSE ToLowerCase(ext)

-----------------------------------------------------------------------------
(* TreeWalker: walk(path, depth), src/core/handlers.ts.                    *)

\* The names readdir returns for a directory, in the order of this run.
RECURSIVE SortNames(_, _)
SortNames(S, ord) ==
  IF S = {} THEN <<>>
  ELSE LET first == CHOOSE n \in S : \A m \in S \ {n} :
                      IF ord = "asc" THEN NameLess(n, m) ELSE NameLess(m, n)
       IN <<first>> \o SortNames(S \ {first}, ord)

Readdir(fsys, d) ==
  IF Fails("readdir", d) THEN [ok |-> FALSE, code |-> FailCode("readdir", d), names |-> <<>>]
  ELSE IF ~IsDirAt(fsys, d) THEN [ok |-> FALSE, code |-> "ENOTDIR", names |-> <<>>]
  ELSE [ok |-> TRUE, code |-> "",
        names |-> SortNames({Base(p) : p \in Children(fsys, d)}, order)]

\* An entry test that takes everything but a directory for a file.
EntryIsNotDirectory(fsys, p) == fsys[p].kind # "dir"

\* Dirent.isDirectory / Dirent.isFile: the type of the entry itself, so a
\* symbolic link is neither.
EntryIsDirectory(fsys, p) == fsys[p].kind = "dir"
EntryIsFile(fsys, p) == fsys[p].kind = "file"

\* fs.realpath: every symbolic link on the way resolved. [ok, path]
SymlinkHops == 4
RECURSIVE RealPathFrom(_, _, _, _)
RealPathFrom(fsys, done, rest, hops) ==
  IF rest = <<>> THEN [ok |-> TRUE, path |-> done]
  ELSE LET next == Join(done, Head(rest))
       IN IF ~Exists(fsys, next) THEN [ok |-> FALSE, path |-> next]
          ELSE IF fsys[next].kind = "link"
          THEN IF hops = 0 THEN [ok |-> FALSE, path |-> next]
               ELSE RealPathFrom(fsys, <<>>, fsys[next].to \o Tail(rest), hops - 1)
          ELSE RealPathFrom(fsys, next, Tail(rest), hops)
RealPath(fsys, p) == RealPathFrom(fsys, <<>>, p, SymlinkHops)

\* A stat that no fault makes fail.
StatUnfailing(fsys, p) ==
  LET real == RealPath(fsys, p)
  IN IF ~real.ok THEN [ok |-> FALSE, node |-> DirNode]
     ELSE [ok |-> TRUE, node |-> fsys[real.path]]

\* fs.stat(p): follows symbolic links. [ok, node]
Stat(fsys, p) ==
  LET real == RealPath(fsys, p)
  IN IF Fails("stat", p) \/ ~real.ok THEN [ok |-> FALSE, node |-> DirNode]
     ELSE [ok |-> TRUE, node |-> fsys[real.path]]

\* A depth test that stops one level early.
TooDeepAtDepth(depth, level) == depth # 0 /\ level >= depth

\* const unlimited = depth === 0; if (!unlimited && level > depth) return
TooDeep(depth, level) == depth # 0 /\ level > depth

EmptyWalk == [files |-> <<>>, errors |-> <<>>, visited |-> {}, reads |-> <<>>, threw |-> FALSE]

FileRecord(dir, full, name, node) ==
  [dir |-> dir, ext |-> NormalizeExt(ExtName(Base(full))), fullPath |-> full,
   name |-> name, size |-> Len(node.data), mtime |-> node.mtime]

\* walk and its loop over the entries of one directory. acc holds the
\* arrays shared by the recursive calls (result, _visited, _errors) and
\* reads, the directories read so far; threw says that this call rejected.
RECURSIVE WalkDir(_, _, _, _, _)
RECURSIVE WalkEntries(_, _, _, _, _, _, _)
WalkDir(fsys, path, depth, level, acc) ==
  LET real == RealPath(fsys, path)
  IN IF ~real.ok THEN [acc EXCEPT !.threw = TRUE]
     ELSE IF real.path \in acc.visited THEN acc
     ELSE
       LET acc1 == [acc EXCEPT !.visited = @ \cup {real.path}]
       IN IF TooDeep(depth, level) THEN acc1
          ELSE
            LET rd == Readdir(fsys, real.path)
            IN IF ~rd.ok
               THEN [acc1 EXCEPT !.errors = Append(@, [file |-> path, error |-> rd.code])]
               ELSE WalkEntries(fsys, path, real.path, rd.names, depth, level,
                                [acc1 EXCEPT !.reads = Append(@, real.path)])

WalkEntries(fsys, path, real, names, depth, level, acc) ==
  IF names = <<>> THEN acc
  ELSE
    LET name == Head(names)
        full == NormalizePath(Join(real, name))
        after ==
          IF EntryIsDirectory(fsys, full)
          THEN LET sub == WalkDir(fsys, full, depth, level + 1, acc)
               IN IF sub.threw
                  THEN [sub EXCEPT !.threw = FALSE,
                                   !.errors = Append(@, [file |-> full, error |-> "ENOENT"])]
                  ELSE sub
          ELSE IF EntryIsFile(fsys, full)
          THEN LET st == Stat(fsys, full)
               IN IF ~st.ok
                  THEN [acc EXCEPT !.errors = Append(@, [file |-> full, error |-> "EACCES"])]
                  ELSE [acc EXCEPT !.files = Append(@, FileRecord(path, full, name, st.node))]
          ELSE acc
    IN WalkEntries(fsys, path, real, Tail(names), depth, level, after)

\* walk(path, depth, level): [files, errors, threw]
Walk(fsys, path, depth, level) == WalkDir(fsys, path, depth, level, EmptyWalk)

-----------------------------------------------------------------------------
(* EmptyDirPruner: deleteEmptyDirs(root, protectedDir), handlers.ts.       *)

\* sp.resolve of an absolute path
Resolve(p) == NormalizePath(p)

RECURSIVE DirsCrowl(_, _, _)
RECURSIVE CrowlEntries(_, _, _, _, _)
\* dirsCrowl without the comparison with the protected directory
DirsCrowlUnprotected(st, dir, protectedDir) ==
  LET rd == Readdir(st.fs, dir)
  IN IF ~rd.ok THEN [st EXCEPT !.skipped = @ + 1, !.empty = FALSE]
     ELSE
       LET done == CrowlEntries(st, dir, rd.names, protectedDir, TRUE)
       IN IF done.empty
          THEN LET rm == Rmdir(done.fs, dir)
               IN IF rm.ok
                  THEN [done EXCEPT !.fs = rm.fs, !.deleted = @ + 1, !.empty = TRUE]
                  ELSE [done EXCEPT !.skipped = @ + 1, !.empty = FALSE]
          ELSE [done EXCEPT !.empty = FALSE]

\* dirsCrowl(dir): [fs, deleted, skipped, empty], empty being its return value
DirsCrowl(st, dir, protectedDir) ==
  LET rd == Readdir(st.fs, dir)
  IN IF ~rd.ok THEN [st EXCEPT !.skipped = @ + 1, !.empty = FALSE]
     ELSE
       LET done == CrowlEntries(st, dir, rd.names, protectedDir, TRUE)
       IN IF done.empty /\ Resolve(dir) # protectedDir
          THEN LET rm == Rmdir(done.fs, dir)
               IN IF rm.ok
                  THEN [done EXCEPT !.fs = rm.fs, !.deleted = @ + 1, !.empty = TRUE]
                  ELSE [done EXCEPT !.skipped = @ + 1, !.empty = FALSE]
          ELSE [done EXCEPT !.empty = FALSE]

\* the loop over the entries; isEmpty is the flag of the enclosing call
CrowlEntries(st, dir, names, protectedDir, isEmpty) ==
  IF names = <<>> THEN [st EXCEPT !.empty = isEmpty]
  ELSE
    LET fullPath == Join(dir, Head(names))
    IN IF EntryIsDirectory(st.fs, fullPath)
       THEN LET child == DirsCrowl(st, fullPath, protectedDir)
            IN CrowlEntries(child, dir, Tail(names), protectedDir,
                            isEmpty /\ child.empty)
       ELSE CrowlEntries(st, dir, Tail(names), protectedDir, FALSE)

\* deleteEmptyDirs(root, protectedDir): [fs, deleted, skipped]
DeleteEmptyDirs(fsys, root, protectedDir0) ==
  LET protectedDir == Resolve(protectedDir0)
      r == DirsCrowl([fs |-> fsys, deleted |-> 0, skipped |-> 0, empty |-> FALSE],
                     Resolve(root), protectedDir)
  IN [fs |-> r.fs, deleted |-> r.deleted, skipped |-> r.skipped]

-----------------------------------------------------------------------------
(* ExtensionRouter: resolveRules, buildExtMap, createRouter (arrange.ts).  *)

eJpg == <<"j", "p", "g">>
ePng == <<"p", "n", "g">>
ePdf == <<"p", "d", "f">>
eTxt == <<"t", "x", "t">>
eJPG == <<"J", "P", "G">>
nImages == <<"I", "m", "a", "g", "e", "s">>
nDocuments == <<"D", "o", "c", "u", "m", "e", "n", "t", "s">>
nPics == <<"P", "i", "c", "s">>
nOthers == <<"o", "t", "h", "e", "r", "s">>

\* A rule set is the sequence of the entries of the object, in key order.
Rule(folder, exts) == [folder |-> folder, exts |-> exts]

\* mediaTypes, the default table (an excerpt: two folders, two extensions each)
SystemRules == <<Rule(nImages, <<eJpg, ePng>>), Rule(nDocuments, <<ePdf, eTxt>>)>>

SeqToSet(q) == {q[i] : i \in 1..Len(q)}
FolderIndex(rules, folder) ==
  LET hit == {i \in 1..Len(rules) : rules[i].folder = folder}
  IN IF hit = {} THEN 0 ELSE CHOOSE i \in hit : TRUE

\* An assignment that adds the user's list to the entry of an existing key.
RECURSIVE ApplyUserMerging(_, _)
ApplyUserMerging(result, user) ==
  IF user = <<>> THEN result
  ELSE LET u == Head(user)
           i == FolderIndex(result, u.folder)
       IN ApplyUserMerging(IF i = 0 THEN Append(result, u)
                           ELSE [result EXCEPT ![i].exts = @ \o u.exts], Tail(user))

\* result[folder] = exts: replaces the entry of an existing key, appends a new key
RECURSIVE ApplyUser(_, _)
ApplyUser(result, user) ==
  IF user = <<>> THEN result
  ELSE LET u == Head(user)
           i == FolderIndex(result, u.folder)
       IN ApplyUser(IF i = 0 THEN Append(result, u)
                    ELSE [result EXCEPT ![i] = u], Tail(user))

\* resolveRules(user): user = <<>> stands for "no rules given"
ResolveRules(user) ==
  IF user = <<>> THEN SystemRules
  ELSE
    LET token == UNION {{ToLowerCase(e) : e \in SeqToSet(user[i].exts)} : i \in 1..Len(user)}
        stripped == [i \in 1..Len(SystemRules) |->
                       Rule(SystemRules[i].folder,
                            SelectSeq(SystemRules[i].exts, LAMBDA e : e \notin token))]
    IN ApplyUser(stripped, user)

\* resolveRules and the default table after it: the writes of resolveRules
\* go to structuredClone(system), and filter returns new arrays
ResolveRulesAndTable(user) == [rules |-> ResolveRules(user), mediaTypes |-> SystemRules]

\* The (ext, folder) pairs of the rules in the order buildExtMap sets them.
RECURSIVE RulePairs(_)
RulePairs(rules) ==
  IF rules = <<>> THEN <<>>
  ELSE [i \in 1..Len(Head(rules).exts) |->
          [ext |-> Head(rules).exts[i], folder |-> Head(rules).folder]]
       \o RulePairs(Tail(rules))

\* buildExtMap(rules): [threw, map], map a function ext -> folder
BuildExtMap(rules) ==
  LET pairs == RulePairs(rules)
      dup == \E i, j \in 1..Len(pairs) : i < j /\ pairs[i].ext = pairs[j].ext
  IN IF dup THEN [threw |-> TRUE, map |-> <<>>]
     ELSE [threw |-> FALSE,
           map |-> [e \in {pairs[i].ext : i \in 1..Len(pairs)} |->
                      (CHOOSE i \in 1..Len(pairs) : pairs[i].ext = e)]]

\* the router of createRouter, applied to one file
Route(extMap, rules, file, baseDir) ==
  LET pairs == RulePairs(rules)
      folder == IF file.ext \in DOMAIN extMap THEN pairs[extMap[file.ext]].folder
                ELSE nOthers
      destDir == NormalizePath(Join(baseDir, folder))
  IN [file |-> file, destDir |-> destDir,
      destPath |-> NormalizePath(Join(destDir, file.name))]

-----------------------------------------------------------------------------
(* Arranger: arrange(path, options), src/core/arrange.ts.                  *)

\* An isDirectory that takes every path for a directory.
IsDirectoryUnchecked(fsys, p) == [threw |-> FALSE, dir |-> TRUE]

\* isDirectory(path): fs.stat rejects when the path does not exist. [threw, dir]
IsDirectory(fsys, p) ==
  LET st == Stat(fsys, p)
  IN [threw |-> ~st.ok, dir |-> st.ok /\ st.node.kind = "dir"]

\* intialBuildState(dir): the regular files directly in dir. [threw, files]
RECURSIVE BuildStateEntries(_, _, _, _)
BuildStateEntries(fsys, dir, names, acc) ==
  IF names = <<>> THEN [threw |-> FALSE, files |-> acc]
  ELSE
    LET full == NormalizePath(Join(dir, Head(names)))
    IN IF ~EntryIsFile(fsys, full) THEN BuildStateEntries(fsys, dir, Tail(names), acc)
       ELSE LET st == Stat(fsys, full)
            IN IF ~st.ok THEN [threw |-> TRUE, files |-> acc]
               ELSE BuildStateEntries(fsys, dir, Tail(names),
                      Append(acc, [dir |-> dir, name |-> Head(names), fullPath |-> full,
                                   ext |-> NormalizeExt(ExtName(Head(names))),
                                   size |-> Len(st.node.data), mtime |-> 0]))

IntialBuildState(fsys, dir) ==
  LET rd == Readdir(fsys, NormalizePath(dir))
  IN IF ~rd.ok THEN [threw |-> TRUE, files |-> <<>>]
     ELSE BuildStateEntries(fsys, dir, rd.names, <<>>)

NoStats == [scanned |-> 0, moved |-> 0, skipped |-> 0, errors |-> <<>>]
Thrown(fsys) == [fs |-> fsys, threw |-> TRUE, stats |-> NoStats, calls |-> <<>>]

\* onMove?.({file, dest}, stats): the observer is "none" when none is given,
\* and one that is given "returns" or "throws". st = [fs, stats, calls, threw];
\* calls records what each invocation received.
OnMove(st, onMove, src, dest) ==
  IF onMove = "none" THEN st
  ELSE [st EXCEPT !.calls = Append(@, [file |-> src, dest |-> dest, stats |-> st.stats]),
                  !.threw = (onMove = "throws")]

\* try { safeMove; stats.moved++; onMove } catch { errors.push; onMove }: what
\* the try block throws, the observer's exception included, the catch takes
MoveAndTell(st, onMove, src, dest) ==
  LET mv == Move(st.fs, src, dest)
      tried == IF mv.threw THEN [st EXCEPT !.fs = mv.fs, !.threw = TRUE]
               ELSE OnMove([st EXCEPT !.fs = mv.fs, !.stats.moved = @ + 1], onMove, src, dest)
  IN IF ~tried.threw THEN tried
     ELSE OnMove([tried EXCEPT !.threw = FALSE,
                    !.stats.errors = Append(@, [file |-> src,
                                                error |-> IF mv.threw THEN mv.msg
                                                          ELSE "onMove"])],
                 onMove, src, dest)

\* The loop over the plan of arrange; an exception that leaves it ends it.
RECURSIVE ArrangePlan(_, _, _, _)
ArrangePlan(st, plan, dryRun, onMove) ==
  IF plan = <<>> \/ st.threw THEN st
  ELSE
    LET src == NormalizePath(Head(plan).file.fullPath)
        dest == NormalizePath(Head(plan).destPath)
        next ==
          IF src = dest THEN OnMove([st EXCEPT !.stats.skipped = @ + 1], onMove, src, dest)
          ELSE IF dryRun THEN OnMove([st EXCEPT !.stats.moved = @ + 1], onMove, src, dest)
          ELSE MoveAndTell(st, onMove, src, dest)
    IN ArrangePlan(next, Tail(plan), dryRun, onMove)

\* arrange(path, {rules, dryRun, onMove}): [fs, threw, stats, calls]; stats is
\* what a call that returns resolves to
Arrange(fsys, path, rules, dryRun, onMove) ==
  LET isDir == IsDirectory(fsys, path)
  IN IF isDir.threw \/ ~isDir.dir THEN Thrown(fsys)
     ELSE
       LET built == IntialBuildState(fsys, path)
       IN IF built.threw THEN Thrown(fsys)
          ELSE IF built.files = <<>> THEN [Thrown(fsys) EXCEPT !.threw = FALSE]
          ELSE
            LET resolved == ResolveRules(rules)
                extMap == BuildExtMap(resolved)
            IN IF extMap.threw THEN Thrown(fsys)
               ELSE
                 LET plan == [i \in 1..Len(built.files) |->
                                Route(extMap.map, resolved, built.files[i], path)]
                     done == ArrangePlan([fs |-> fsys, threw |-> FALSE, calls |-> <<>>,
                                          stats |-> [NoStats EXCEPT !.scanned = Len(built.files)]],
                                         plan, dryRun, onMove)
                 IN [fs |-> done.fs, threw |-> done.threw, calls |-> done.calls,
                     stats |-> IF done.threw THEN NoStats ELSE done.stats]

-----------------------------------------------------------------------------
(* Flattener: resolveNames and flatten(path, opts), core/flat.ts.          *)

EndsWith(s, suffix) ==
  Len(suffix) <= Len(s) /\ SubSeq(s, Len(s) - Len(suffix) + 1, Len(s)) = suffix

\* sp.basename(name, ext) of a name without separators
BaseName(name, ext) ==
  IF ext # <<>> /\ Len(ext) <= Len(name)
  THEN IF ext = name THEN <<>>
       ELSE IF EndsWith(name, ext) THEN SubSeq(name, 1, Len(name) - Len(ext))
       ELSE name
  ELSE name

DigitChar(d) ==
  CASE d = 0 -> "0" [] d = 1 -> "1" [] d = 2 -> "2" [] d = 3 -> "3" [] d = 4 -> "4"
    [] d = 5 -> "5" [] d = 6 -> "6" [] d = 7 -> "7" [] d = 8 -> "8" [] OTHER -> "9"
\* the decimal digits of a number, as a template literal writes it
RECURSIVE NumStr(_)
NumStr(n) == IF n < 10 THEN <<DigitChar(n)>> ELSE NumStr(n \div 10) \o <<DigitChar(n % 10)>>

\* used.get(name): the counter stored for a name, -1 when the map has none
UsedGet(used, name) == IF name \in DOMAIN used THEN used[name] ELSE -1
UsedSet(used, name, n) == [k \in DOMAIN used \cup {name} |-> IF k = name THEN n ELSE used[k]]

\* the callback of files.map in resolveNames: acc = [used, plan]
RECURSIVE ResolveNamesFrom(_, _, _, _)
ResolveNamesFrom(destRoot, files, conflict, acc) ==
  IF files = <<>> THEN acc.plan
  ELSE
    LET file == Head(files)
        ext == <<".">> \o file.ext
        base == BaseName(file.name, ext)
        finalName == base \o ext
        entry(n) == [src |-> file.fullPath, dest |-> NormalizePath(Join(destRoot, n))]
    IN IF conflict \in {"overwrite", "skip"}
       THEN ResolveNamesFrom(destRoot, Tail(files), conflict,
                             [acc EXCEPT !.plan = Append(@, entry(finalName))])
       ELSE IF finalName \in DOMAIN acc.used
       THEN LET counter == UsedGet(acc.used, finalName) + 1
                renamed == base \o <<"-", "(">>
                           \o NumStr(IF counter = 1 THEN 2 ELSE counter + 1)
                           \o <<")">> \o ext
            IN ResolveNamesFrom(destRoot, Tail(files), conflict,
                 [used |-> UsedSet(acc.used, finalName, counter),
                  plan |-> Append(acc.plan, entry(renamed))])
       ELSE ResolveNamesFrom(destRoot, Tail(files), conflict,
              [used |-> UsedSet(acc.used, finalName, 0),
               plan |-> Append(acc.plan, entry(finalName))])

ResolveNames(destRoot, files, conflict) ==
  ResolveNamesFrom(destRoot, files, conflict, [used |-> <<>>, plan |-> <<>>])

\* The loop over the plan of flatten: st = [fs, stats]
RECURSIVE FlattenPlan(_, _, _)
FlattenPlan(st, plan, dryRun) ==
  IF plan = <<>> THEN st
  ELSE
    LET src == Head(plan).src
        dest == Head(plan).dest
        next ==
          IF src = dest THEN [st EXCEPT !.stats.skipped = @ + 1]
          ELSE IF dryRun THEN [st EXCEPT !.stats.moved = @ + 1]
          ELSE LET mv == Move(st.fs, src, dest)
               IN IF ~mv.threw
                  THEN [st EXCEPT !.fs = mv.fs, !.stats.moved = @ + 1]
                  ELSE [st EXCEPT !.fs = mv.fs,
                          !.stats.errors = Append(@, [file |-> src, error |-> mv.msg])]
    IN FlattenPlan(next, Tail(plan), dryRun)

\* flatten(path, {depth, level, conflict, dryRun, deleteEmpty}): [fs, threw, stats]
Flatten(fsys, path0, depth, level, conflict, dryRun, deleteEmpty) ==
  LET path == NormalizePath(path0)
      isDir == IsDirectory(fsys, path)
  IN IF isDir.threw \/ ~isDir.dir THEN Thrown(fsys)
     ELSE
       LET w == Walk(fsys, path, depth, level)
           stats0 == [NoStats EXCEPT !.scanned = Len(w.files), !.errors = w.errors]
       IN IF w.threw THEN Thrown(fsys)
          ELSE IF w.files = <<>> THEN [fs |-> fsys, threw |-> FALSE, stats |-> stats0]
          ELSE IF ~\E i \in 1..Len(w.files) : NormalizePath(w.files[i].dir) # path
          THEN [fs |-> fsys, threw |-> FALSE, stats |-> stats0]
          ELSE
            LET plan == ResolveNames(path, w.files, conflict)
                moved == FlattenPlan([fs |-> fsys, stats |-> stats0], plan, dryRun)
                pruned == IF deleteEmpty THEN DeleteEmptyDirs(moved.fs, path, path).fs
                          ELSE moved.fs
            IN [fs |-> pruned, threw |-> FALSE, stats |-> moved.stats]

-----------------------------------------------------------------------------
(* Deduplicator: dedupe(root, options), src/core/dedupe.ts.                *)

\* The string of a path: "/r/x/a.txt" as a sequence of characters.
RECURSIVE PathString(_)
PathString(p) == IF p = <<>> THEN <<>> ELSE <<"/">> \o Head(p) \o PathString(Tail(p))

StartsWith(s, prefix) == Len(prefix) <= Len(s) /\ SubSeq(s, 1, Len(prefix)) = prefix
Includes(s, sub) ==
  \E i \in 0..(Len(s) - Len(sub)) : SubSeq(s, i + 1, i + Len(sub)) = sub

\* The regular expression shouldIgnore builds from a pattern, matched at the
\* start of s: "*" is ".*", "?" is ".", and "." is a literal dot.
RECURSIVE MatchHere(_, _)
MatchHere(pat, s) ==
  IF pat = <<>> THEN TRUE
  ELSE IF Head(pat) = "*" THEN \E k \in 0..Len(s) : MatchHere(Tail(pat), SubSeq(s, k + 1, Len(s)))
  ELSE IF s = <<>> THEN FALSE
  ELSE IF Head(pat) = "?" THEN MatchHere(Tail(pat), Tail(s))
  ELSE Head(pat) = Head(s) /\ MatchHere(Tail(pat), Tail(s))
\* regex.test: a match anywhere in s
RegexTest(pat, s) == \E i \in 0..Len(s) : MatchHere(pat, SubSeq(s, i + 1, Len(s)))

\* shouldIgnore(filePath, patterns), patterns a sequence of strings
ShouldIgnore(filePath, patterns) ==
  /\ patterns # <<>>
  /\ \E i \in 1..Len(patterns) :
       \/ RegexTest(patterns[i], PathString(NormalizePath(filePath)))
       \/ Includes(PathString(NormalizePath(filePath)), patterns[i])

\* A digest that tells contents apart by their length only.
DigestOfLength(data) == [alg |-> "sha256", of |-> Len(data)]

\* crypto sha256 of the content: equal digests exactly for equal contents
Sha256(data) == [alg |-> "sha256", of |-> data]
\* hashFile(filePath): [ok, hash]
HashFile(fsys, p) ==
  IF Fails("read", p) \/ ~IsFileAt(fsys, p) THEN [ok |-> FALSE, hash |-> Sha256(<<>>)]
  ELSE [ok |-> TRUE, hash |-> Sha256(fsys[p].data)]

\* The keys of a Map in insertion order: the distinct elements of a
\* sequence in the order of their first occurrence.
RECURSIVE DistinctInOrder(_, _)
DistinctInOrder(q, seen) ==
  IF q = <<>> THEN <<>>
  ELSE IF Head(q) \in seen THEN DistinctInOrder(Tail(q), seen)
  ELSE <<Head(q)>> \o DistinctInOrder(Tail(q), seen \cup {Head(q)})

\* A reduce in which the later file wins a tie.
RECURSIVE ReduceBestOrEqual(_, _, _)
ReduceBestOrEqual(acc, rest, strategy) ==
  IF rest = <<>> THEN acc
  ELSE
    LET cur == Head(rest)
        better ==
          CASE strategy = "oldest" -> cur.mtime <= acc.mtime
            [] strategy = "newest" -> cur.mtime >= acc.mtime
            [] strategy = "shortest-path" ->
                 Len(PathString(cur.fullPath)) <= Len(PathString(acc.fullPath))
            [] OTHER -> Len(PathString(cur.fullPath)) >= Len(PathString(acc.fullPath))
    IN ReduceBestOrEqual(IF better THEN cur ELSE acc, Tail(rest), strategy)

\* Array.prototype.reduce without an initial value, keeping cur when better(cur, acc)
RECURSIVE ReduceBest(_, _, _)
ReduceBest(acc, rest, strategy) ==
  IF rest = <<>> THEN acc
  ELSE
    LET cur == Head(rest)
        better ==
          CASE strategy = "oldest" -> cur.mtime < acc.mtime
            [] strategy = "newest" -> cur.mtime > acc.mtime
            [] strategy = "shortest-path" ->
                 Len(PathString(cur.fullPath)) < Len(PathString(acc.fullPath))
            [] OTHER -> Len(PathString(cur.fullPath)) > Len(PathString(acc.fullPath))
    IN ReduceBest(IF better THEN cur ELSE acc, Tail(rest), strategy)

\* A choice that always takes the first file.
ChooseFirstFile(files, strategy0, canonicalPath) == [threw |-> FALSE, file |-> files[1]]

\* chooseCanonical(files, options): [threw, file]. strategy "" and
\* canonicalPath <<>> stand for options left out.
ChooseCanonical(files, strategy0, canonicalPath) ==
  LET strategy == IF strategy0 # "" THEN strategy0
                  ELSE IF canonicalPath # <<>> THEN "canonical" ELSE "first"
  IN CASE strategy = "canonical" ->
            IF canonicalPath = <<>> THEN [threw |-> TRUE, file |-> files[1]]
            ELSE LET hit == {i \in 1..Len(files) :
                              StartsWith(PathString(files[i].fullPath), canonicalPath)}
                 IN IF hit = {} THEN [threw |-> FALSE, file |-> files[1]]
                    ELSE [threw |-> FALSE,
                          file |-> files[CHOOSE i \in hit : \A j \in hit : i <= j]]
       [] strategy \in {"oldest", "newest", "shortest-path", "longest-path"} ->
            [threw |-> FALSE, file |-> ReduceBest(files[1], Tail(files), strategy)]
       [] OTHER -> [threw |-> FALSE, file |-> files[1]]

\* The hashing loop: acc = [hashed, errors], hashed a sequence of [file, hash]
RECURSIVE HashAll(_, _, _)
HashAll(fsys, files, acc) ==
  IF files = <<>> THEN acc
  ELSE LET h == HashFile(fsys, Head(files).fullPath)
       IN HashAll(fsys, Tail(files),
            IF h.ok THEN [acc EXCEPT !.hashed = Append(@, [file |-> Head(files), hash |-> h.hash])]
            ELSE [acc EXCEPT !.errors = Append(@, [file |-> Head(files).fullPath,
                                                   error |-> "EACCES"])])

\* The loop below with every run taken for a dry run: it counts, and
\* unlinks nothing.
RECURSIVE CountWithoutUnlink(_, _, _)
CountWithoutUnlink(st, dups, dryRun) ==
  IF dups = <<>> THEN st
  ELSE CountWithoutUnlink([st EXCEPT !.filesDeleted = @ + 1, !.spaceSaved = @ + Head(dups).size],
                          Tail(dups), dryRun)

\* The loop below leaving the group at the first unlink that fails.
RECURSIVE DeleteUntilFailure(_, _, _)
DeleteUntilFailure(st, dups, dryRun) ==
  IF dups = <<>> THEN st
  ELSE
    LET dup == Head(dups)
        ul == IF dryRun THEN Ok(st.fs) ELSE Unlink(st.fs, dup.fullPath)
    IN IF ul.ok
       THEN DeleteUntilFailure([st EXCEPT !.fs = ul.fs, !.filesDeleted = @ + 1,
                                          !.spaceSaved = @ + dup.size],
                               Tail(dups), dryRun)
       ELSE [st EXCEPT !.errors = Append(@, [file |-> dup.fullPath, error |-> ul.code])]

\* The loop that deletes the duplicates of one group: st = [fs, filesDeleted, spaceSaved, errors]
RECURSIVE DeleteDuplicates(_, _, _)
DeleteDuplicates(st, dups, dryRun) ==
  IF dups = <<>> THEN st
  ELSE
    LET dup == Head(dups)
        ul == IF dryRun THEN Ok(st.fs) ELSE Unlink(st.fs, dup.fullPath)
    IN DeleteDuplicates(
         IF ul.ok
         THEN [st EXCEPT !.fs = ul.fs, !.filesDeleted = @ + 1, !.spaceSaved = @ + dup.size]
         ELSE [st EXCEPT !.errors = Append(@, [file |-> dup.fullPath, error |-> ul.code])],
         Tail(dups), dryRun)

RECURSIVE SumSizes(_)
SumSizes(files) == IF files = <<>> THEN 0 ELSE Head(files).size + SumSizes(Tail(files))

\* A filter that keeps the canonical file among the duplicates.
DuplicatesWithCanonical(files, canonical) == files

\* group.filter((f) => f !== canonical)
Duplicates(files, canonical) == SelectSeq(files, LAMBDA f : f # canonical)

\* The loop over the duplicate groups: st as above, with groups
RECURSIVE ProcessGroups(_, _, _, _, _)
ProcessGroups(st, groups, strategy, canonicalPath, dryRun) ==
  IF groups = <<>> THEN st
  ELSE
    LET g == Head(groups)
        chosen == ChooseCanonical(g.files, strategy, canonicalPath)
    IN IF chosen.threw
       THEN ProcessGroups([st EXCEPT !.errors = Append(@, [file |-> <<<<"group:">>>>,
                                                             error |-> "canonicalPath is required"])],
                          Tail(groups), strategy, canonicalPath, dryRun)
       ELSE
         LET duplicates == Duplicates(g.files, chosen.file)
             info == [hash |-> g.hash, canonical |-> chosen.file, duplicates |-> duplicates,
                      spaceSaved |-> SumSizes(duplicates)]
             st1 == [st EXCEPT !.groups = Append(@, info)]
         IN ProcessGroups(DeleteDuplicates(st1, duplicates, dryRun),
                          Tail(groups), strategy, canonicalPath, dryRun)

RECURSIVE Concat(_)
Concat(gs) == IF gs = <<>> THEN <<>> ELSE Head(gs) \o Concat(Tail(gs))

DedupeThrown(fsys) ==
  [fs |-> fsys, threw |-> TRUE, scannedFiles |-> 0, duplicateGroups |-> 0,
   filesDeleted |-> 0, spaceSaved |-> 0, errors |-> <<>>, groups |-> <<>>]

\* The size buckets that hold more than one file, in the order of sizeMap
PotentialDuplicates(filtered) ==
  LET sizes == DistinctInOrder([i \in 1..Len(filtered) |-> filtered[i].size], {})
  IN SelectSeq([k \in 1..Len(sizes) |-> SelectSeq(filtered, LAMBDA f : f.size = sizes[k])],
               LAMBDA g : Len(g) > 1)

\* The entries of hashMap that hold more than one file: [hash, files]
DuplicateGroups(hashed) ==
  LET hashes == DistinctInOrder([i \in 1..Len(hashed) |-> hashed[i].hash], {})
      FilesOfHash(h) == LET sel == SelectSeq(hashed, LAMBDA e : e.hash = h)
                        IN [i \in 1..Len(sel) |-> sel[i].file]
  IN SelectSeq([k \in 1..Len(hashes) |-> [hash |-> hashes[k], files |-> FilesOfHash(hashes[k])]],
               LAMBDA g : Len(g.files) > 1)

\* dedupe after its loop over the groups: deleteEmptyDirs and the result
DedupeResult(root, scanned, groupCount, done, dryRun, deleteEmpty) ==
  [fs |-> IF deleteEmpty /\ ~dryRun THEN DeleteEmptyDirs(done.fs, root, root).fs ELSE done.fs,
   threw |-> FALSE, scannedFiles |-> scanned, duplicateGroups |-> groupCount,
   filesDeleted |-> done.filesDeleted, spaceSaved |-> done.spaceSaved,
   errors |-> done.errors, groups |-> done.groups]

\* dedupe from the hashing on: hashing = [hashed, errors]
DedupeHashed(fsys, root, scanned, hashing, dupGroups, o) ==
  DedupeResult(root, scanned, Len(dupGroups),
               ProcessGroups([fs |-> fsys, filesDeleted |-> 0, spaceSaved |-> 0,
                              errors |-> hashing.errors, groups |-> <<>>],
                             dupGroups, o.strategy, o.canonicalPath, o.dryRun),
               o.dryRun, o.deleteEmpty)

\* dedupe from the filtered files on
DedupeFiltered(fsys, root, walkErrors, filtered, o) ==
  IF filtered = <<>>
  THEN [DedupeThrown(fsys) EXCEPT !.threw = FALSE, !.errors = walkErrors]
  ELSE LET hashing == HashAll(fsys, Concat(PotentialDuplicates(filtered)),
                              [hashed |-> <<>>, errors |-> walkErrors])
       IN DedupeHashed(fsys, root, Len(filtered), hashing, DuplicateGroups(hashing.hashed), o)

\* dedupe from the result of walk on
DedupeWalked(fsys, root, w, o) ==
  IF w.threw THEN DedupeThrown(fsys)
  ELSE DedupeFiltered(fsys, root, w.errors,
                      SelectSeq(w.files, LAMBDA f : ~ShouldIgnore(f.fullPath, o.ignorePatterns)),
                      o)

\* dedupe(root, {strategy, canonicalPath, dryRun, ignorePatterns, deleteEmpty})
Dedupe(fsys, root, strategy, canonicalPath, dryRun, ignorePatterns, deleteEmpty) ==
  LET st == Stat(fsys, root)
  IN IF ~st.ok \/ st.node.kind # "dir" THEN DedupeThrown(fsys)
     ELSE DedupeWalked(fsys, root, Walk(fsys, root, 0, 0),
                       [strategy |-> strategy, canonicalPath |-> canonicalPath,
                        dryRun |-> dryRun, ignorePatterns |-> ignorePatterns,
                        deleteEmpty |-> deleteEmpty])

-----------------------------------------------------------------------------
(* ArchiveScanner: archive(root, archivePath, durationDays, dryRun).       *)

\* Date.now(), in days; a modification time is a day as well
Now == 3
DayMs == 24 * 60 * 60 * 1000

ArchiveThrown(fsys) == [fs |-> fsys, threw |-> TRUE, scanned |-> 0, archived |-> 0,
                        archivedBytes |-> 0]

\* The loop over the old files: st = [fs, threw, archived, total]
RECURSIVE ArchiveFiles(_, _, _, _)
ArchiveFiles(st, oldFiles, archivePath, dryRun) ==
  IF oldFiles = <<>> \/ st.threw THEN st
  ELSE
    LET file == Head(oldFiles)
        st1 == [st EXCEPT !.total = @ + file.size]
        destPath == NormalizePath(Join(archivePath, file.name))
    IN IF dryRun THEN ArchiveFiles(st1, Tail(oldFiles), archivePath, dryRun)
       ELSE LET mv == Move(st1.fs, file.fullPath, destPath)
            IN IF mv.threw THEN [st1 EXCEPT !.fs = mv.fs, !.threw = TRUE]
               ELSE ArchiveFiles([st1 EXCEPT !.fs = mv.fs, !.archived = @ + 1],
                                 Tail(oldFiles), archivePath, dryRun)

\* String.prototype.trim: the string without its leading and trailing blanks
RECURSIVE TrimStart(_)
TrimStart(str) == IF str # <<>> /\ Head(str) = " " THEN TrimStart(Tail(str)) ELSE str
Reverse(str) == [i \in 1..Len(str) |-> str[Len(str) + 1 - i]]
Trim(str) == Reverse(TrimStart(Reverse(TrimStart(str))))

\* archive once its arguments are accepted: walk, select, mkdir, move
ArchiveWalked(fsys, root, archivePath, durationDays, dryRun) ==
  LET w == Walk(fsys, root, 0, 0)
      none == [ArchiveThrown(fsys) EXCEPT !.threw = FALSE]
      thresholdMs == Now * DayMs - durationDays * DayMs
      oldFiles == SelectSeq(w.files, LAMBDA f : f.mtime * DayMs < thresholdMs)
  IN IF w.threw THEN ArchiveThrown(fsys)
     ELSE IF w.files = <<>> THEN none
     ELSE IF oldFiles = <<>> THEN [none EXCEPT !.scanned = Len(w.files)]
     ELSE
       LET made == IF dryRun \/ Access(fsys, archivePath) THEN Ok(fsys)
                   ELSE MkdirP(fsys, archivePath)
       IN IF ~made.ok THEN ArchiveThrown(fsys)
          ELSE
            LET done == ArchiveFiles([fs |-> made.fs, threw |-> FALSE,
                                      archived |-> 0, total |-> 0],
                                     oldFiles, archivePath, dryRun)
            IN [fs |-> done.fs, threw |-> done.threw,
                scanned |-> IF done.threw THEN 0 ELSE Len(w.files),
                archived |-> IF done.threw THEN 0 ELSE done.archived,
                archivedBytes |-> IF done.threw THEN 0 ELSE done.total]

\* The path a string names: its components between the "/".
RECURSIVE SplitPath(_, _, _)
SplitPath(str, name, acc) ==
  LET done == IF name = <<>> THEN acc ELSE Append(acc, name)
  IN IF str = <<>> THEN done
     ELSE IF Head(str) = "/" THEN SplitPath(Tail(str), <<>>, done)
     ELSE SplitPath(Tail(str), Append(name, Head(str)), acc)

\* archive(root, archivePath, durationDays, dryRun): archivePath is the
\* string given; archivedBytes is the total that formatSize renders as
\* archivedSize.
Archive(fsys, root, archivePath, durationDays, dryRun) ==
  LET isDir == IsDirectory(fsys, root)
  IN IF isDir.threw \/ ~isDir.dir THEN ArchiveThrown(fsys)
     ELSE IF archivePath = <<>> \/ Trim(archivePath) = <<>> THEN ArchiveThrown(fsys)
     ELSE IF durationDays <= 0 THEN ArchiveThrown(fsys)
     ELSE ArchiveWalked(fsys, root, SplitPath(archivePath, <<>>, <<>>), durationDays, dryRun)

-----------------------------------------------------------------------------
(* EmptyFileScanner: findEmptyFiles(root, options), core/flat.ts.          *)

FinderThrown(fsys) == [fs |-> fsys, threw |-> TRUE, scanned |-> 0, deleted |-> 0,
                       empty |-> 0, errors |-> <<>>, files |-> <<>>]

\* The loop over the files: st = [fs, deleted, empty, errors, files]
RECURSIVE FindEmptyLoop(_, _, _, _, _)
FindEmptyLoop(st, files, deleteEmpty, dryRun, getFiles) ==
  IF files = <<>> THEN st
  ELSE
    LET file == Head(files)
    IN IF file.size # 0 THEN FindEmptyLoop(st, Tail(files), deleteEmpty, dryRun, getFiles)
       ELSE
         LET st1 == [st EXCEPT !.empty = @ + 1,
                       !.files = IF getFiles
                                 THEN Append(@, [dir |-> file.dir, fullPath |-> file.fullPath,
                                                 size |-> file.size])
                                 ELSE @]
             ul == IF deleteEmpty /\ ~dryRun THEN Unlink(st1.fs, file.fullPath) ELSE Ok(st1.fs)
             st2 == IF ~deleteEmpty THEN st1
                    ELSE IF ul.ok THEN [st1 EXCEPT !.fs = ul.fs, !.deleted = @ + 1]
                    ELSE [st1 EXCEPT !.errors = Append(@, [file |-> file.fullPath,
                                                           error |-> ul.code])]
         IN FindEmptyLoop(st2, Tail(files), deleteEmpty, dryRun, getFiles)

\* const {dryRun = true} = options: an option is <<>> when it is not given
\* and <<v>> when it is given as v
OptionOr(option, default) == IF option = <<>> THEN default ELSE option[1]

\* findEmptyFiles(root, {deleteEmpty, dryRun, getFiles}), dryRun an option
FindEmptyFiles(fsys, root, deleteEmpty, dryRunOption, getFiles) ==
  LET isDir == IsDirectory(fsys, root)
      dryRun == OptionOr(dryRunOption, TRUE)
  IN IF isDir.threw \/ ~isDir.dir THEN FinderThrown(fsys)
     ELSE
       LET w == Walk(fsys, root, 0, 0)
           none == [FinderThrown(fsys) EXCEPT !.threw = FALSE, !.errors = w.errors]
       IN IF w.threw THEN FinderThrown(fsys)
          ELSE IF w.files = <<>> THEN none
          ELSE
            LET done == FindEmptyLoop([fs |-> fsys, deleted |-> 0, empty |-> 0,
                                       errors |-> w.errors, files |-> <<>>],
                                      w.files, deleteEmpty, dryRun, getFiles)
            IN [fs |-> done.fs, threw |-> FALSE, scanned |-> Len(w.files),
                deleted |-> done.deleted, empty |-> done.empty,
                errors |-> done.errors, files |-> done.files]

-----------------------------------------------------------------------------
(* LargeFileFinder: findLargeFiles(root, minSizeMB, limit).                *)

\* Array.prototype.sort((a, b) => b.sizeBytes - a.sizeBytes): stable, the
\* larger first
RECURSIVE SortBySize(_)
SortBySize(files) ==
  IF files = <<>> THEN <<>>
  ELSE LET rest == SortBySize(Tail(files))
           k == Cardinality({i \in 1..Len(rest) : rest[i].sizeBytes > Head(files).sizeBytes})
       IN SubSeq(rest, 1, k) \o <<Head(files)>> \o SubSeq(rest, k + 1, Len(rest))

\* option?.push(...items): nothing when the option is undefined
PushIfPresent(option, items) == IF option = <<>> THEN option ELSE <<option[1] \o items>>

LargeThrown == [threw |-> TRUE, limit |-> 0, matched |-> 0, filesPath |-> <<>>, errors |-> <<>>]

\* findLargeFiles(root, minSizeMB, limit): [threw, limit, matched, filesPath].
\* The files of the model are a few bytes long, so minSizeMB counts units of
\* 2^-20 MB and bytes = minSizeMB * 1024 ** 2 is that count; the sizeMB text
\* of an entry is left out. The result is built without an errors field
\* (errors = <<>>, the undefined option), and the errors of walk go to
\* result.errors?.push.
FindLargeFiles(fsys, root, minSizeMB, limit) ==
  LET isDir == IsDirectory(fsys, root)
  IN IF isDir.threw \/ ~isDir.dir THEN LargeThrown
     ELSE IF minSizeMB <= 0 THEN LargeThrown
     ELSE IF limit <= 0 THEN LargeThrown
     ELSE
       LET w == Walk(fsys, root, 0, 0)
           result0 == [threw |-> FALSE, limit |-> limit, matched |-> 0, filesPath |-> <<>>,
                       errors |-> <<>>]
           result == IF w.errors # <<>>
                     THEN [result0 EXCEPT !.errors = PushIfPresent(@, w.errors)]
                     ELSE result0
           large == SelectSeq(w.files, LAMBDA f : f.size >= minSizeMB)
           largeFiles == SortBySize([i \in 1..Len(large) |->
                                       [path |-> large[i].fullPath, sizeBytes |-> large[i].size]])
       IN IF w.threw THEN LargeThrown
          ELSE IF w.files = <<>> THEN result
          ELSE [result EXCEPT !.filesPath = SubSeq(largeFiles, 1, IF limit < Len(largeFiles) THEN limit ELSE Len(largeFiles)),
                              !.matched = Len(largeFiles)]

-----------------------------------------------------------------------------
(* Initial states: a tree under /r, and the system calls that will fail.   *)

Top == <<>>
\* The sets of directories an initial tree may have under the root.
DirSets == {{}, {DirX}, {DirY}, {DirX, DirY}, {DirX, DirXZ}, {DirX, DirY, DirXZ}}
FileNames == {nATxt, nBJpg}
\* contents: two of the same size, and the empty one
dataA == <<"a", "a">>
dataB == <<"b", "b">>
dataEmpty == <<>>
Contents == {dataA, dataB, dataEmpty}
MTimes == {1, 2}

Slots(ds, names) == {Join(d, n) : d \in ds \cup {Root}, n \in names}

\* the tree with directories ds and the files f (a function path -> node)
Tree(ds, f) ==
  [p \in {Top, Root} \cup ds \cup DOMAIN f |-> IF p \in DOMAIN f THEN f[p] ELSE DirNode]

\* the trees with one of the directory sets and at most MaxFiles files, each
\* file one of the nodes
TreesOf(dirSets, names, nodes) ==
  UNION {UNION {{Tree(ds, f) : f \in [S -> nodes]}
                : S \in {S \in SUBSET Slots(ds, names) : Cardinality(S) <= MaxFiles}}
         : ds \in dirSets}
Trees(dirSets, names, contents, mtimes) ==
  TreesOf(dirSets, names, {FileNode(c, t) : c \in contents, t \in mtimes})

\* the trees, and each of them with one symbolic link more: at a slot whose
\* directory the tree has, to a target the tree has
LinkedTrees(trees, slots, targets) ==
  trees \cup UNION {{Put(t, l, LinkNode(to)) :
                       l \in {m \in slots : Parent(m) \in DOMAIN t},
                       to \in targets \cap DOMAIN t}
                    : t \in trees}

\* the faults of a behaviour: at most MaxFaults calls, each on a file or on
\* a directory of the tree below the root, as the kind of fault says
FaultSets(fsys, kinds) ==
  {F \in SUBSET {f \in [call : {k.call : k \in kinds}, path : DOMAIN fsys,
                         code : {k.code : k \in kinds}] :
                   /\ Below(Root, f.path)
                   /\ \E k \in kinds : /\ k.call = f.call /\ k.code = f.code
                                       /\ fsys[f.path].kind = k.on}
     : Cardinality(F) <= MaxFaults}

NoCall == [op |-> "none"]
NoRes == [threw |-> FALSE]

InitWith(trees, kinds) ==
  /\ fs \in trees
  /\ faults \in FaultSets(fs, kinds)
  /\ order \in {"asc", "desc"}
  /\ before = fs
  /\ call = NoCall
  /\ res = NoRes
  /\ stack = <<>>

-----------------------------------------------------------------------------
(* The operations, each called once on the initial tree.                   *)

Fault(call_, code, on) == [call |-> call_, code |-> code, on |-> on]
RenameFaults == {Fault("rename", "EACCES", "file")}
MoveFaults == {Fault("rename", "EACCES", "file"), Fault("rename", "EXDEV", "file")}

\* move(src, dest) for a file src and a destination in the tree
MoveCall ==
  /\ call.op = "none"
  /\ \E src \in FilesOf(fs), dest \in Slots({DirX, DirY}, FileNames) :
       \E r \in {Move(fs, src, dest)} :
          /\ fs' = r.fs
          /\ call' = [op |-> "move", src |-> src, dest |-> dest, dryRun |-> FALSE]
          /\ res' = [threw |-> r.threw, msg |-> r.msg]
  /\ before' = fs
  /\ UNCHANGED <<faults, order, stack>>

\* flatten(path, opts), path one of roots
FlattenOn(roots) ==
  /\ call.op = "none"
  /\ \E path \in roots, conflict \in {"rename", "overwrite", "skip"}, dryRun \in BOOLEAN,
        deleteEmpty \in BOOLEAN, depth \in {0, 1} :
       \E r \in {Flatten(fs, path, depth, 0, conflict, dryRun, deleteEmpty)} :
          /\ fs' = r.fs
          /\ call' = [op |-> "flatten", path |-> path, depth |-> depth, conflict |-> conflict,
                      dryRun |-> dryRun, deleteEmpty |-> deleteEmpty]
          /\ res' = [threw |-> r.threw, stats |-> r.stats]
  /\ before' = fs
  /\ UNCHANGED <<faults, order, stack>>

FlattenCall == FlattenOn({Root})

\* arrange(path, {rules, dryRun}), path one of roots
\* no rules; a new folder for an extension of the default table, in lower
\* and in upper case; and an extension listed under two folders
UserRules ==
  {<<>>, <<Rule(nPics, <<eJpg>>)>>, <<Rule(nPics, <<eJPG>>)>>,
   <<Rule(nPics, <<eJpg>>), Rule(nDocuments, <<eJpg, ePdf>>)>>}
ArrangeOn(roots, observers) ==
  /\ call.op = "none"
  /\ \E path \in roots, rules \in UserRules, dryRun \in BOOLEAN, onMove \in observers :
       \E r \in {Arrange(fs, path, rules, dryRun, onMove)} :
          /\ fs' = r.fs
          /\ call' = [op |-> "arrange", path |-> path, rules |-> rules, dryRun |-> dryRun,
                      onMove |-> onMove]
          /\ res' = [threw |-> r.threw, stats |-> r.stats, calls |-> r.calls]
  /\ before' = fs
  /\ UNCHANGED <<faults, order, stack>>
ArrangeCall == ArrangeOn({Root}, {"none"})

\* the same arrange call once more, on what the first one left
ArrangeAgain ==
  /\ call.op = "arrange"
  /\ \E r \in {Arrange(fs, call.path, call.rules, call.dryRun, call.onMove)} :
        /\ fs' = r.fs
        /\ call' = [call EXCEPT !.op = "arrange again"]
        /\ res' = [threw |-> r.threw, stats |-> r.stats, calls |-> r.calls, first |-> res]
  /\ before' = fs
  /\ UNCHANGED <<faults, order, stack>>

\* dedupe(Root, options)
Strategies == {"first", "canonical", "oldest", "newest", "shortest-path", "longest-path"}
IgnoreJpg == <<"*", ".", "j", "p", "g">>
DedupeOpt(s, c, d, i, e) ==
  [strategy |-> s, canonicalPath |-> c, dryRun |-> d, ignorePatterns |-> i, deleteEmpty |-> e]
\* every strategy (and none) on a real run; a canonicalPath with the
\* strategies that read it; a dry run, an ignore pattern and deleteEmpty
DedupeOptions ==
  {DedupeOpt(s, <<>>, FALSE, <<>>, FALSE) : s \in Strategies \cup {""}}
  \cup {DedupeOpt(s, PathString(DirX), FALSE, <<>>, FALSE) : s \in {"", "canonical"}}
  \cup {DedupeOpt(s, <<>>, TRUE, <<>>, e) : s \in {"first", "newest"}, e \in BOOLEAN}
  \cup {DedupeOpt("first", <<>>, FALSE, <<IgnoreJpg>>, FALSE),
        DedupeOpt("first", <<>>, FALSE, <<>>, TRUE)}
DedupeOn(roots) ==
  /\ call.op = "none"
  /\ \E root \in roots, o \in DedupeOptions :
       /\ \E r \in {Dedupe(fs, root, o.strategy, o.canonicalPath, o.dryRun,
                          o.ignorePatterns, o.deleteEmpty)} :
             /\ fs' = r.fs
             /\ call' = [op |-> "dedupe", root |-> root, strategy |-> o.strategy,
                         canonicalPath |-> o.canonicalPath, dryRun |-> o.dryRun,
                         ignorePatterns |-> o.ignorePatterns, deleteEmpty |-> o.deleteEmpty]
             /\ res' = [threw |-> r.threw, scannedFiles |-> r.scannedFiles,
                        duplicateGroups |-> r.duplicateGroups, filesDeleted |-> r.filesDeleted,
                        spaceSaved |-> r.spaceSaved, errors |-> r.errors, groups |-> r.groups]
  /\ before' = fs
  /\ UNCHANGED <<faults, order, stack>>

DedupeCall == DedupeOn({Root})

\* archive(root, archivePath, durationDays, dryRun), root one of roots; the
\* archive paths: "", a blank one, a directory outside the root, one inside
nV == <<"v">>
ArchiveDir == <<nV>>
BlankPath == <<" ", " ">>
ArchiveOn(roots) ==
  /\ call.op = "none"
  /\ \E root \in roots, archivePath \in {<<>>, BlankPath, PathString(ArchiveDir), PathString(DirX)},
        durationDays \in -1..2, dryRun \in BOOLEAN :
       \E r \in {Archive(fs, root, archivePath, durationDays, dryRun)} :
          /\ fs' = r.fs
          /\ call' = [op |-> "archive", root |-> root, archivePath |-> archivePath,
                      durationDays |-> durationDays, dryRun |-> dryRun]
          /\ res' = [threw |-> r.threw, scanned |-> r.scanned, archived |-> r.archived,
                     archivedBytes |-> r.archivedBytes]
  /\ before' = fs
  /\ UNCHANGED <<faults, order, stack>>

ArchiveCall == ArchiveOn({Root})

\* findEmptyFiles(root, {deleteEmpty, dryRun, getFiles}), root one of roots
FindEmptyOn(roots) ==
  /\ call.op = "none"
  /\ \E root \in roots, deleteEmpty \in BOOLEAN, dryRun \in {<<>>, <<TRUE>>, <<FALSE>>},
        getFiles \in BOOLEAN :
       \E r \in {FindEmptyFiles(fs, root, deleteEmpty, dryRun, getFiles)} :
          /\ fs' = r.fs
          /\ call' = [op |-> "findEmptyFiles", root |-> root, deleteEmpty |-> deleteEmpty,
                      dryRun |-> dryRun, getFiles |-> getFiles]
          /\ res' = [threw |-> r.threw, scanned |-> r.scanned, deleted |-> r.deleted,
                     empty |-> r.empty, errors |-> r.errors, files |-> r.files]
  /\ before' = fs
  /\ UNCHANGED <<faults, order, stack>>

FindEmptyCall == FindEmptyOn({Root})

\* findLargeFiles(root, minSizeMB, limit), root one of roots
FindLargeOn(roots) ==
  /\ call.op = "none"
  /\ \E root \in roots, minSizeMB \in -1..2, limit \in -1..2 :
       \E r \in {FindLargeFiles(fs, root, minSizeMB, limit)} :
          /\ fs' = fs
          /\ call' = [op |-> "findLargeFiles", root |-> root, minSizeMB |-> minSizeMB,
                      limit |-> limit]
          /\ res' = r
  /\ before' = fs
  /\ UNCHANGED <<faults, order, stack>>

\* deleteEmptyDirs(root, protectedDir), the protected directory being the
\* root (the default) or another directory of the tree
PruneCall ==
  /\ call.op = "none"
  /\ \E root \in {Root, DirX} \cap DirsOf(fs),
        protectedDir \in {d \in DirsOf(fs) : IsPrefix(Root, d)} :
       \E r \in {DeleteEmptyDirs(fs, root, protectedDir)} :
          /\ fs' = r.fs
          /\ call' = [op |-> "deleteEmptyDirs", root |-> root, protectedDir |-> protectedDir,
                      dryRun |-> FALSE]
          /\ res' = [threw |-> FALSE, deleted |-> r.deleted, skipped |-> r.skipped]
  /\ before' = fs
  /\ UNCHANGED <<faults, order, stack>>

\* walk(path, depth), one step at a time. A frame of the stack is a call
\* of walk that has not returned: about to start ("enter") or in its loop
\* over the entries that readdir returned, names being those still to come.
EnterFrame(path, level) ==
  [pc |-> "enter", path |-> path, real |-> <<>>, names |-> <<>>, level |-> level]
LoopFrame(path, real, names, level) ==
  [pc |-> "loop", path |-> path, real |-> real, names |-> names, level |-> level]
MaxDepth == 1

\* the call walk(path, depth) by the user, path the root or a symbolic link
WalkCall ==
  /\ call.op = "none"
  /\ \E path \in {Root, DirY} \cup {p \in DOMAIN fs : fs[p].kind = "link"},
        depth \in 0..MaxDepth :
       /\ call' = [op |-> "walk", path |-> path, depth |-> depth, dryRun |-> FALSE]
       /\ stack' = <<EnterFrame(path, 0)>>
  /\ res' = EmptyWalk
  /\ before' = fs
  /\ UNCHANGED <<fs, faults, order>>

\* from the entry of walk to its readdir: realpath, the visited set, the
\* depth test. A call that rejects adds an entry to the errors of its
\* caller, whose catch clause takes it; the outermost call rejects.
WalkEnter ==
  /\ call.op = "walk" /\ stack # <<>> /\ Head(stack).pc = "enter"
  /\ LET top == Head(stack)
         real == RealPath(fs, top.path)
         rd == Readdir(fs, real.path)
     IN IF ~real.ok
        THEN /\ stack' = Tail(stack)
             /\ res' = IF Tail(stack) = <<>> THEN [res EXCEPT !.threw = TRUE]
                       ELSE [res EXCEPT !.errors = Append(@, [file |-> top.path,
                                                              error |-> "ENOENT"])]
        ELSE IF real.path \in res.visited
        THEN stack' = Tail(stack) /\ res' = res
        ELSE IF TooDeep(call.depth, top.level)
        THEN /\ stack' = Tail(stack)
             /\ res' = [res EXCEPT !.visited = @ \cup {real.path}]
        ELSE IF ~rd.ok
        THEN /\ stack' = Tail(stack)
             /\ res' = [res EXCEPT !.visited = @ \cup {real.path},
                                   !.errors = Append(@, [file |-> top.path, error |-> rd.code])]
        ELSE /\ stack' = <<LoopFrame(top.path, real.path, rd.names, top.level)>> \o Tail(stack)
             /\ res' = [res EXCEPT !.visited = @ \cup {real.path},
                                   !.reads = Append(@, real.path)]
  /\ UNCHANGED <<fs, faults, order, before, call>>

\* one turn of the loop over the entries: a directory starts a call of walk,
\* a file is stat'ed and pushed, anything else is passed over
WalkEntry ==
  /\ call.op = "walk" /\ stack # <<>>
  /\ Head(stack).pc = "loop" /\ Head(stack).names # <<>>
  /\ LET top == Head(stack)
         name == Head(top.names)
         full == NormalizePath(Join(top.real, name))
         rest == <<[top EXCEPT !.names = Tail(@)]>> \o Tail(stack)
         st == Stat(fs, full)
     IN IF EntryIsDirectory(fs, full)
        THEN stack' = <<EnterFrame(full, top.level + 1)>> \o rest /\ res' = res
        ELSE IF EntryIsFile(fs, full)
        THEN /\ stack' = rest
             /\ res' = IF ~st.ok
                       THEN [res EXCEPT !.errors = Append(@, [file |-> full, error |-> "EACCES"])]
                       ELSE [res EXCEPT !.files = Append(@, FileRecord(top.path, full, name, st.node))]
        ELSE stack' = rest /\ res' = res
  /\ UNCHANGED <<fs, faults, order, before, call>>

\* the loop is over: the call returns
WalkReturn ==
  /\ call.op = "walk" /\ stack # <<>>
  /\ Head(stack).pc = "loop" /\ Head(stack).names = <<>>
  /\ stack' = Tail(stack)
  /\ UNCHANGED <<fs, faults, order, before, call, res>>

WalkStep == WalkEnter \/ WalkEntry \/ WalkReturn
WalkFaults == {Fault("stat", "EACCES", "file"), Fault("readdir", "EACCES", "dir")}

UnlinkFaults == {Fault("unlink", "EACCES", "file")}
DedupeFaults == {Fault("unlink", "EACCES", "file"), Fault("read", "EACCES", "file")}
PruneFaults == {Fault("rmdir", "EACCES", "dir"), Fault("readdir", "EACCES", "dir")}

InitMove == InitWith(Trees({{}, {DirX}}, FileNames, {dataA, dataB}, {1}), MoveFaults)
SpecMove == InitMove /\ [][MoveCall]_vars

InitFlatten == InitWith(Trees(DirSets, FileNames, {dataA, dataB}, {1}), RenameFaults)
SpecFlatten == InitFlatten /\ [][FlattenCall]_vars

DirDocs == <<nRoot, nDocuments>>
InitArrange ==
  InitWith(Trees({{}, {DirX}, {DirDocs}}, FileNames \cup {nBJPG, nImages}, {dataA, dataB}, {1}),
           RenameFaults)
SpecArrange == InitArrange /\ [][ArrangeCall \/ ArrangeAgain]_vars

\* arrange with an observer given
SpecObserve == InitArrange /\ [][ArrangeOn({Root}, {"returns", "throws"})]_vars

dataC == <<"c">>
\* one content at two modification times, another of the same size, and one
\* of another size
DedupeNodes == {FileNode(dataA, 1), FileNode(dataA, 2), FileNode(dataB, 1), FileNode(dataC, 1)}
InitDedupe ==
  InitWith(TreesOf({{DirX}}, FileNames, DedupeNodes), DedupeFaults)
SpecDedupe == InitDedupe /\ [][DedupeCall]_vars

\* trees in which up to MaxGroup files may hold one content
MaxGroup == 3
GroupTrees ==
  UNION {{Tree({DirX}, f) : f \in [S -> {FileNode(dataA, 1), FileNode(dataA, 2),
                                          FileNode(dataB, 1)}]}
         : S \in {S \in SUBSET Slots({DirX}, FileNames) : Cardinality(S) <= MaxGroup}}
InitGroups == InitWith(GroupTrees, {Fault("unlink", "EACCES", "file")})
SpecGroups == InitGroups /\ [][DedupeCall]_vars

InitArchive ==
  InitWith(Trees({{}, {DirX}, {DirX, DirY}}, FileNames, {dataA, dataB}, MTimes), RenameFaults)
SpecArchive == InitArchive /\ [][ArchiveCall]_vars

\* resolveRules(user) on the rule sets of at most MaxRules folders, each with
\* at most MaxExts extensions, no folder and no extension twice in one
MaxRules == 2
MaxExts == 2
ExtLists ==
  {q \in UNION {[1..k -> {eJpg, eJPG, ePdf}] : k \in 0..MaxExts} :
     \A i, j \in 1..Len(q) : q[i] = q[j] => i = j}
RuleSets ==
  {q \in UNION {[1..k -> {Rule(f, l) : f \in {nPics, nImages, nDocuments}, l \in ExtLists}]
                : k \in 0..MaxRules} :
     \A i, j \in 1..Len(q) : q[i].folder = q[j].folder => i = j}
ResolveRulesCall ==
  /\ call.op = "none"
  /\ \E user \in RuleSets :
       /\ call' = [op |-> "resolveRules", user |-> user]
       /\ res' = ResolveRulesAndTable(user)
  /\ before' = fs
  /\ UNCHANGED <<fs, faults, order, stack>>
InitRules == InitWith({Tree({}, <<>>)}, {})
SpecRules == InitRules /\ [][ResolveRulesCall]_vars

\* resolveNames(Root, files, conflict) on the lists of at most MaxNames
\* files, each as walk records it, no file twice
MaxNames == 4
NamedFiles ==
  {FileRecord(d, Join(d, n), n, FileNode(dataA, 1)) :
     d \in {Root, DirX, DirY, DirXZ}, n \in {nATxt, nA2Txt, nBJPG, nImages, nEnv}}
FileLists ==
  {q \in UNION {[1..k -> NamedFiles] : k \in 0..MaxNames} :
     \A i, j \in 1..Len(q) : q[i] = q[j] => i = j}
ResolveNamesCall ==
  /\ call.op = "none"
  /\ \E files \in FileLists, conflict \in {"rename", "overwrite", "skip"} :
       /\ call' = [op |-> "resolveNames", destRoot |-> Root, files |-> files,
                   conflict |-> conflict]
       /\ res' = [threw |-> FALSE, plan |-> ResolveNames(Root, files, conflict)]
  /\ before' = fs
  /\ UNCHANGED <<fs, faults, order, stack>>
InitNames == InitWith({Tree({}, <<>>)}, {})
SpecNames == InitNames /\ [][ResolveNamesCall]_vars

\* every operation that checks its root, called on the root, on a file and
\* on a path that does not exist
FatalRoots == {Root, Join(Root, nATxt), DirY}
InitFatal == InitWith(Trees({{}, {DirX}}, {nATxt}, {dataA, dataEmpty}, {1}), {})
SpecFatal ==
  InitFatal /\ [][\/ ArrangeOn(FatalRoots, {"none"}) \/ FlattenOn(FatalRoots) \/ DedupeOn(FatalRoots)
                  \/ FindEmptyOn(FatalRoots) \/ FindLargeOn(FatalRoots)
                  \/ ArchiveOn(FatalRoots)]_vars

FindLargeCall == FindLargeOn({Root})
InitLarge == InitWith(Trees({{}, {DirX}}, FileNames, {dataA, dataEmpty}, {1}), WalkFaults)
SpecLarge == InitLarge /\ [][FindLargeCall]_vars

InitEmpty ==
  InitWith(Trees({{}, {DirX}, {DirX, DirY}}, FileNames, {dataA, dataEmpty}, {1}), UnlinkFaults)
SpecEmpty == InitEmpty /\ [][FindEmptyCall]_vars

InitPrune ==
  InitWith(LinkedTrees(Trees(DirSets, {nATxt}, {dataA}, {1}),
                       {Join(DirY, nLink), Join(DirXZ, nLink)}, {Root}),
           PruneFaults)
SpecPrune == InitPrune /\ [][PruneCall]_vars

\* trees with a symbolic link to an ancestor, to its own directory or to a
\* file; a call of walk that has started runs on until it returns
InitWalk ==
  InitWith(LinkedTrees(Trees({{DirX, DirXZ}}, {nATxt}, {dataA}, {1}),
                       {Join(DirX, nLink), Join(DirXZ, nLink)},
                       {Root, DirX, Join(Root, nATxt)}),
           WalkFaults)
SpecWalk == InitWalk /\ [][WalkCall \/ WalkStep]_vars /\ WF_vars(WalkStep)

-----------------------------------------------------------------------------
(* Claims.                                                                 *)

\* C1: whenever a file already exists at the destination path, move fails
\* with an error and leaves the source file and the existing destination file
\* unchanged: it never overwrites an existing destination. (Stated for a
\* destination other than the source itself.)
C1_MoveNeverOverwrites ==
  (call.op = "move" /\ call.src # call.dest /\ IsFileAt(before, call.dest))
     => (res.threw /\ fs = before)

\* C2: a call with dryRun = true leaves the file system exactly as it was
\* before the call: the same files and directories (empty ones included)
\* with the same contents.
C2_DryRunLeavesFileSystem ==
  (call.op \in {"arrange", "flatten", "dedupe", "archive", "findEmptyFiles"} /\ call.dryRun)
     => fs = before

\* The files directly in directory d that hold content c.
FilesWith(fsys, d, c) == {p \in Children(fsys, d) : fsys[p].kind = "file" /\ fsys[p].data = c}
RootFiles(fsys) == {p \in Children(fsys, Root) : fsys[p].kind = "file"}

\* C7: flatten with conflict strategy 'rename' (not dry-run) loses no data,
\* for every tree and every traversal order: each file the walk discovered is
\* afterwards directly under the root with its original content, so the root
\* holds as many files as were scanned. (No call fails, depth unlimited.)
C7_FlattenRenameLosesNothing ==
  (/\ call.op = "flatten" /\ call.conflict = "rename" /\ ~call.dryRun
   /\ call.depth = 0 /\ faults = {} /\ ~res.threw)
     => LET scanned == Walk(before, Root, 0, 0).files
        IN /\ \A c \in Contents :
                Cardinality({i \in 1..Len(scanned) : before[scanned[i].fullPath].data = c})
                  <= Cardinality(FilesWith(fs, Root, c))
           /\ Cardinality(RootFiles(fs)) = Len(scanned)

\* The files archive takes for old: modified before Now - durationDays.
OldFiles(fsys, durationDays) ==
  SelectSeq(Walk(fsys, Root, 0, 0).files, LAMBDA f : f.mtime < Now - durationDays)

\* C3: under dryRun = true the result counters report what a real run would
\* have done; for archive, 'archived' equals the number of files older than
\* the threshold.
C3_DryRunArchivedCountsOldFiles ==
  (call.op = "archive" /\ call.dryRun /\ ~res.threw)
     => res.archived = Len(OldFiles(before, call.durationDays))

\* The scanned files of a dedupe call: the walk without the ignored paths.
ScannedPaths(fsys, ignorePatterns) ==
  LET files == Walk(fsys, Root, 0, 0).files
  IN {files[i].fullPath : i \in {j \in 1..Len(files) :
                                   ~ShouldIgnore(files[j].fullPath, ignorePatterns)}}
SameContent(fsys, c) == {p \in FilesOf(fsys) : fsys[p].data = c}
DuplicatedContents(fsys) ==
  {c \in {fsys[p].data : p \in FilesOf(fsys)} : Cardinality(SameContent(fsys, c)) >= 2}

\* C4: dedupe with strategy 'first' (not dry-run, no ignore patterns, no
\* failing call) on a tree holding N >= 2 files of identical content and no
\* other duplicates deletes exactly N-1 of them, leaves exactly one of them
\* (and every other file) on disk, and returns filesDeleted = N-1 and
\* spaceSaved = (N-1) * fileSize.
C4_DedupeFirstDeletesAllButOne ==
  (/\ call.op = "dedupe" /\ call.strategy = "first" /\ ~call.dryRun
   /\ call.ignorePatterns = <<>> /\ faults = {}
   /\ Cardinality(DuplicatedContents(before)) = 1)
     => LET c == CHOOSE d \in DuplicatedContents(before) : TRUE
            N == Cardinality(SameContent(before, c))
        IN /\ ~res.threw
           /\ res.filesDeleted = N - 1
           /\ res.spaceSaved = (N - 1) * Len(c)
           /\ Cardinality(SameContent(fs, c)) = 1
           /\ SameContent(fs, c) \subseteq SameContent(before, c)
           /\ \A p \in FilesOf(before) :
                before[p].data # c => (p \in DOMAIN fs /\ fs[p] = before[p])
C4_Witness ==
  /\ call.op = "dedupe" /\ call.strategy = "first" /\ ~call.dryRun
  /\ call.ignorePatterns = <<>> /\ faults = {}
  /\ Cardinality(DuplicatedContents(before)) = 1
  /\ \E p \in FilesOf(before) : IsPrefix(DirX, p) /\ before[p].data \in DuplicatedContents(before)
  /\ res.filesDeleted >= 1 /\ res.spaceSaved >= 2

\* C5: dedupe never deletes a file whose content digest is not shared by
\* another scanned file, under every strategy: such a file is still on disk
\* with its content and is in no duplicate group, and the files of one
\* duplicate group all have the same content.
C5_DedupeKeepsUnsharedContent ==
  call.op = "dedupe" =>
    /\ \A p \in FilesOf(before) :
         (~\E q \in ScannedPaths(before, call.ignorePatterns) \ {p} :
              before[q].data = before[p].data)
           => /\ p \in DOMAIN fs /\ fs[p] = before[p]
              /\ \A i \in 1..Len(res.groups) :
                   /\ res.groups[i].canonical.fullPath # p
                   /\ \A j \in 1..Len(res.groups[i].duplicates) :
                        res.groups[i].duplicates[j].fullPath # p
    /\ \A i \in 1..Len(res.groups) : \A j \in 1..Len(res.groups[i].duplicates) :
         before[res.groups[i].duplicates[j].fullPath].data
           = before[res.groups[i].canonical.fullPath].data
\* two files of one size and different contents were both hashed, on a real run
C5_Witness ==
  /\ call.op = "dedupe" /\ ~call.dryRun /\ faults = {} /\ ~res.threw
  /\ \E p, q \in ScannedPaths(before, call.ignorePatterns) :
       /\ Len(before[p].data) = Len(before[q].data) /\ before[p].data # before[q].data
  /\ res.duplicateGroups = 0 /\ res.scannedFiles = 2 /\ fs = before

\* C6: in a mutating operation (not dry-run) the failing move of one file
\* does not make the operation throw; for archive with a valid archive path
\* and duration, where the only calls that fail are renames of single files.
C6_FailingMoveDoesNotThrow ==
  (/\ call.op = "archive" /\ ~call.dryRun
   /\ Trim(call.archivePath) # <<>> /\ call.durationDays > 0
   /\ \A f \in faults : f.call = "rename" /\ IsFileAt(before, f.path))
     => ~res.threw

\* C8: arrange is idempotent: after a first arrange(path, rules) that
\* completed without errors, a second arrange on the same path with the same
\* rules moves zero files (moved = 0, errors empty) and changes nothing on
\* disk.
C8_ArrangeIdempotent ==
  (/\ call.op = "arrange again" /\ ~call.dryRun
   /\ ~res.first.threw /\ res.first.stats.errors = <<>>)
     => /\ ~res.threw
        /\ res.stats.moved = 0
        /\ res.stats.errors = <<>>
        /\ fs = before
\* the first arrange moved a file, and the second one has run
C8_Witness ==
  /\ call.op = "arrange again" /\ ~call.dryRun
  /\ ~res.first.threw /\ res.first.stats.errors = <<>>
  /\ res.first.stats.moved >= 1

\* The directories of a call deleteEmptyDirs(root, protectedDir): the root
\* and what lies beneath it; and whether a directory holds a file.
DirsUnder(fsys, root) == {d \in DirsOf(fsys) : IsPrefix(root, d)}
HoldsFile(fsys, d) == \E p \in FilesOf(fsys) : IsPrefix(d, p)

\* C9 as stated, for a call in which no system call fails: the protected
\* directory is never removed, every other directory that contains no file
\* anywhere beneath it is removed, and no directory that contains a file is.
C9_PruneRemovesEveryFilelessDir ==
  (call.op = "deleteEmptyDirs" /\ faults = {})
     => /\ call.protectedDir \in DOMAIN fs
        /\ \A d \in {e \in DirsUnder(before, call.root) : e # call.root /\ e # call.protectedDir} :
             IF HoldsFile(before, d) THEN d \in DOMAIN fs ELSE d \notin DOMAIN fs

\* What dirsCrowl can remove: a directory the scan reaches (the readdir of
\* no directory from the root down to it fails), other than the protected
\* one, with nothing beneath it but directories, none of them the protected
\* one and none whose readdir or rmdir fails.
Removable(fsys, root, d, protectedDir) ==
  /\ \A a \in DOMAIN fsys : (IsPrefix(root, a) /\ IsPrefix(a, d)) => ~Fails("readdir", a)
  /\ \A p \in DOMAIN fsys :
       IsPrefix(d, p) => /\ fsys[p].kind = "dir"
                         /\ p # protectedDir
                         /\ ~Fails("readdir", p) /\ ~Fails("rmdir", p)

\* C9, amended: deleteEmptyDirs(root, protectedDir) never removes the
\* protected directory, and removes exactly the directories under root that
\* it can read its way down to and that hold, anywhere beneath them, no
\* file, no symbolic link, not the protected directory and no directory
\* whose readdir or rmdir fails; no directory that contains a file is
\* removed and nothing else changes.
C9_PruneRemovesRemovableDirs ==
  call.op = "deleteEmptyDirs"
     => /\ call.protectedDir \in DOMAIN fs
        /\ \A d \in DirsUnder(before, call.root) :
             d \notin DOMAIN fs <=> Removable(before, call.root, d, call.protectedDir)
        /\ \A d \in DirsUnder(before, call.root) : HoldsFile(before, d) => d \in DOMAIN fs
        /\ \A p \in DOMAIN before :
             (p \notin DirsUnder(before, call.root) \/ p \in DOMAIN fs)
               => (p \in DOMAIN fs /\ fs[p] = before[p])
        /\ DOMAIN fs \subseteq DOMAIN before
        /\ res.deleted = Cardinality(DOMAIN before \ DOMAIN fs)
\* a directory holding only empty directories went, the protected root
\* stayed, and a directory holding only a symbolic link stayed
C9_Witness ==
  /\ call.op = "deleteEmptyDirs" /\ call.root = Root /\ call.protectedDir = Root
  /\ DirXZ \in DOMAIN before /\ DirX \notin DOMAIN fs
  /\ Join(DirY, nLink) \in DOMAIN fs
  /\ res.deleted = 2

\* The sequence has no element twice.
NoRepeat(q) == \A i, j \in 1..Len(q) : q[i] = q[j] => i = j
WalkDone == call.op = "walk" /\ stack = <<>>
\* every record is of a regular file of the tree, no file (by its real path)
\* has two records, and no directory real path was read twice
WalkOnce ==
  call.op = "walk" =>
    /\ \A i \in 1..Len(res.files) : IsFileAt(fs, res.files[i].fullPath)
    /\ NoRepeat([i \in 1..Len(res.files) |-> RealPath(fs, res.files[i].fullPath).path])
    /\ \A i \in 1..Len(res.reads) : RealPath(fs, res.reads[i]).path = res.reads[i]
    /\ NoRepeat(res.reads)

\* C10: walk terminates on every finite directory tree, trees with symbolic
\* links pointing back to an ancestor included, the returned file list
\* contains each file at most once, and every directory real path is read
\* at most once per traversal.
C10_WalkTerminatesWithoutRepeats ==
  /\ []WalkOnce
  /\ (call.op = "walk") ~> WalkDone
\* a walk has returned from a tree in which a link points back to the root,
\* with a file found and the directory of the link read
C10_Witness ==
  /\ WalkDone /\ call.path = Root /\ call.depth = 0 /\ ~res.threw
  /\ \E l \in DOMAIN fs : /\ fs[l].kind = "link" /\ fs[l].to = Root
                            /\ \E i \in 1..Len(res.reads) : res.reads[i] = Parent(l)
  /\ Len(res.files) >= 1


\* The files directly in directory d.
FilesIn(fsys, d) == {p \in FilesOf(fsys) : Parent(p) = d}
\* The folders under which the user rules list the extension, in any case.
UserFoldersOf(rules, ext) ==
  {rules[i].folder : i \in {j \in 1..Len(rules) :
                              \E e \in SeqToSet(rules[j].exts) : ToLowerCase(e) = ext}}

\* C11: extension routing ignores case on both sides: after an arrange that
\* moved every file, a file whose extension, in any case, is listed in any
\* case under a folder of the user rules lies in that folder.
C11_RoutingIgnoresCase ==
  (call.op = "arrange" /\ ~call.dryRun /\ ~res.threw /\ res.stats.errors = <<>>) =>
    \A p \in FilesIn(before, call.path) :
      \A folder \in UserFoldersOf(call.rules, ToLowerCase(Tail(ExtName(Base(p))))) :
        IsFileAt(fs, Join(Join(call.path, folder), Base(p)))


\* The folders of a rule set that list the extension.
FoldersOf(rules, ext) ==
  {rules[i].folder : i \in {j \in 1..Len(rules) : ext \in SeqToSet(rules[j].exts)}}
\* Some extension is listed under two folders of the rule set.
AssignedTwice(rules) ==
  \E i \in 1..Len(rules) : \E e \in SeqToSet(rules[i].exts) :
    Cardinality(FoldersOf(rules, e)) >= 2

\* C12: when the resolved rules list one extension under two folders, arrange
\* throws and the file system is as it was before the call: no file moved,
\* no directory created; when arrange returns, no extension of the resolved
\* rules is listed under two folders.
C12_DuplicateExtensionThrows ==
  call.op = "arrange" =>
    /\ AssignedTwice(ResolveRules(call.rules)) => (res.threw /\ fs = before)
    /\ ~res.threw => ~AssignedTwice(ResolveRules(call.rules))


\* The root a call was given.
RootOf(c) == IF c.op \in {"arrange", "flatten"} THEN c.path ELSE c.root
\* The call fails one of the checks made on the arguments.
FatalCall(fsys, c) ==
  \/ ~IsDirAt(fsys, RootOf(c))
  \/ c.op = "archive" /\ (Trim(c.archivePath) = <<>> \/ c.durationDays <= 0)
  \/ c.op = "findLargeFiles" /\ (c.minSizeMB <= 0 \/ c.limit <= 0)

\* C13: arrange, flatten, dedupe, findEmptyFiles, findLargeFiles and archive
\* throw when the root does not exist or is not a directory, archive also on
\* an empty or blank archivePath or a durationDays <= 0, findLargeFiles also
\* on a minSizeMB <= 0 or a limit <= 0; and then the file system is as it
\* was: no file moved or deleted, no directory created.
C13_FatalPreconditionsThrow ==
  (/\ call.op \in {"arrange", "flatten", "dedupe", "findEmptyFiles", "findLargeFiles",
                   "archive"}
   /\ FatalCall(before, call))
     => (res.threw /\ fs = before)
\* archive was called for real on a directory holding an old file, with a
\* blank archive path, and threw
C13_Witness ==
  /\ call.op = "archive" /\ ~call.dryRun /\ call.root = Root /\ call.durationDays = 1
  /\ call.archivePath = BlankPath
  /\ FilesIn(before, Root) # {}
  /\ res.threw /\ fs = before


\* The folders a file may be routed to: those of the resolved rules and the
\* fallback.
Categories(rules) ==
  {ResolveRules(rules)[i].folder : i \in 1..Len(ResolveRules(rules))} \cup {nOthers}
\* What lies beneath the subdirectories of directory d.
InSubdirs(fsys, d) ==
  {q \in DOMAIN fsys : \E sub \in DirsOf(fsys) : Parent(sub) = d /\ Below(sub, q)}

\* C14: an arrange that is no dry run and in which every move succeeds, on a
\* directory holding n regular files directly in it, returns scanned = n,
\* moved = n and skipped = 0; each of the files then lies, with its content,
\* at <path>/<category>/<name> for a category of the rules or the fallback;
\* and what was beneath the subdirectories is there unchanged.
C14_ArrangeMovesEveryRootFile ==
  (call.op = "arrange" /\ ~call.dryRun /\ ~res.threw /\ res.stats.errors = <<>>) =>
    /\ res.stats.scanned = Cardinality(FilesIn(before, call.path))
    /\ res.stats.moved = Cardinality(FilesIn(before, call.path))
    /\ res.stats.skipped = 0
    /\ \A p \in FilesIn(before, call.path) :
         \E c \in Categories(call.rules) :
            /\ IsFileAt(fs, Join(Join(call.path, c), Base(p)))
            /\ fs[Join(Join(call.path, c), Base(p))].data = before[p].data
    /\ \A q \in InSubdirs(before, call.path) : q \in DOMAIN fs /\ fs[q] = before[q]


\* The files arrange plans to move: those directly in the directory, in the
\* order readdir lists them.
Planned(fsys, d) ==
  SelectSeq([i \in 1..Len(Readdir(fsys, d).names) |-> Join(d, Readdir(fsys, d).names[i])],
            LAMBDA p : IsFileAt(fsys, p))
\* arrange made a plan: the directory holds a file and the rules are accepted.
HasPlan == call.op = "arrange" /\ FilesIn(before, call.path) # {}
           /\ ~AssignedTwice(ResolveRules(call.rules))

\* C15: an observer given to arrange is invoked exactly once for every
\* planned file, in the order of the plan, whatever becomes of the file
\* (skipped, dry run, moved, move failed), and the stats it receives count
\* that file's outcome already.
C15_OnMoveOncePerPlannedFile ==
  (HasPlan /\ call.onMove # "none") =>
    /\ Len(res.calls) = Len(Planned(before, call.path))
    /\ \A i \in 1..Len(res.calls) :
         /\ res.calls[i].file = Planned(before, call.path)[i]
         /\ res.calls[i].stats.moved + res.calls[i].stats.skipped
              + Len(res.calls[i].stats.errors) = i


\* The zero-byte files beneath directory d.
EmptyFilesUnder(fsys, d) == {p \in FilesOf(fsys) : Below(d, p) /\ Len(fsys[p].data) = 0}

\* C16: findEmptyFiles(root, {deleteEmpty: true}), no dryRun option given and
\* no call failing, deletes every zero-byte file under the root, and the
\* deleted count it returns is the number of files removed.
C16_DeleteEmptyDeletes ==
  (/\ call.op = "findEmptyFiles" /\ call.deleteEmpty /\ call.dryRun = <<>>
   /\ faults = {} /\ ~res.threw)
     => /\ \A p \in EmptyFilesUnder(before, call.root) : p \notin DOMAIN fs
        /\ res.deleted = Cardinality(DOMAIN before \ DOMAIN fs)


\* The directory a walk starts in: the real path of the path it was given.
WalkRoot == RealPath(fs, call.path).path
\* Directory d is at most call.depth levels below the root of the walk, or
\* the depth is unlimited.
WithinDepth(d) == call.depth = 0 \/ Len(d) - Len(WalkRoot) <= call.depth
\* The walk can read its way down to path p: every directory from the root
\* of the walk down to the parent of p is a directory within the depth whose
\* readdir does not fail.
Reachable(p) ==
  /\ Below(WalkRoot, p)
  /\ \A k \in Len(WalkRoot)..(Len(p) - 1) :
       /\ IsDirAt(fs, SubSeq(p, 1, k)) /\ WithinDepth(SubSeq(p, 1, k))
       /\ ~Fails("readdir", SubSeq(p, 1, k))
\* The failing calls the walk runs into: the stat of a reachable file, the
\* readdir of a reachable directory within the depth.
Met(f) ==
  /\ Reachable(f.path)
  /\ f.call = "stat" \/ (f.call = "readdir" /\ WithinDepth(f.path))
ErrorsFor(p) == {i \in 1..Len(res.errors) : res.errors[i].file = p}

\* C17: walk isolates failures. It throws only when its root cannot be
\* resolved; a failing stat of one entry or readdir of one directory below
\* the root adds exactly one error entry, for that path (any other error
\* entry is for a root that cannot be read); and every file the walk can
\* reach whose stat does not fail is returned, the siblings and the
\* ancestors' other entries of a failed path included.
C17_WalkIsolatesFailures ==
  WalkDone =>
    /\ res.threw <=> ~RealPath(fs, call.path).ok
    /\ ~res.threw =>
         /\ \A f \in faults : Met(f) => Cardinality(ErrorsFor(f.path)) = 1
         /\ \A i \in 1..Len(res.errors) :
              \/ \E f \in faults : Met(f) /\ f.path = res.errors[i].file
              \/ /\ res.errors[i].file = call.path
                 /\ ~IsDirAt(fs, WalkRoot) \/ Fails("readdir", WalkRoot)
         /\ \A p \in FilesOf(fs) :
              (Reachable(p) /\ ~Fails("stat", p))
                => \E i \in 1..Len(res.files) : res.files[i].fullPath = p
\* the readdir of a directory failed, which gave one error, and a file next
\* to that directory was returned
C17_Witness ==
  /\ WalkDone /\ call.path = Root /\ ~res.threw
  /\ [call |-> "readdir", path |-> DirX, code |-> "EACCES"] \in faults
  /\ Len(res.errors) = 1 /\ res.errors[1].file = DirX
  /\ \E i \in 1..Len(res.files) : res.files[i].fullPath = Join(Root, nATxt)


\* The number of levels directory d lies below the root of the walk.
LevelOf(d) == Len(d) - Len(WalkRoot)

\* C18: with no call failing, walk(root, 0) returns every file at every
\* depth, and walk(root, d) with d > 0 returns exactly the files whose
\* containing directory is at most d levels below the root and reads no
\* directory deeper than d levels.
C18_WalkDepthLimit ==
  (WalkDone /\ ~res.threw /\ faults = {}) =>
    /\ {res.files[i].fullPath : i \in 1..Len(res.files)}
         = {p \in FilesOf(fs) : /\ Below(WalkRoot, p)
                                /\ call.depth > 0 => LevelOf(Parent(p)) <= call.depth}
    /\ call.depth > 0 => \A i \in 1..Len(res.reads) : LevelOf(res.reads[i]) <= call.depth
\* a walk of depth 1 returned the file one level down and left out the
\* file two levels down, whose directory it did not read
C18_Witness ==
  /\ WalkDone /\ call.path = Root /\ call.depth = 1 /\ faults = {}
  /\ IsFileAt(fs, Join(DirXZ, nATxt)) /\ IsFileAt(fs, Join(DirX, nATxt))
  /\ \E i \in 1..Len(res.files) : res.files[i].fullPath = Join(DirX, nATxt)
  /\ \A i \in 1..Len(res.files) : res.files[i].fullPath # Join(DirXZ, nATxt)
  /\ \A i \in 1..Len(res.reads) : res.reads[i] # DirXZ


\* The extensions of the folder in the rules, <<>> when it has no entry.
ExtsOf(rules, folder) ==
  IF FolderIndex(rules, folder) = 0 THEN <<>> ELSE rules[FolderIndex(rules, folder)].exts
FolderNames(rules) == {rules[i].folder : i \in 1..Len(rules)}
\* The extensions the user rules list, as given and in lower case.
UserExts(user) ==
  UNION {{e, ToLowerCase(e)} : e \in UNION {SeqToSet(user[i].exts) : i \in 1..Len(user)}}

\* C19: resolveRules(userRules) lets the user's rules win and replaces
\* rather than merges: no extension of a user category is left in a default
\* category of the result, each user category has exactly the user's list
\* (a default category of that name is replaced), the other default
\* categories keep their other extensions in their order, there is no other
\* category, and the default table is as it was.
C19_UserRulesOverride ==
  (call.op = "resolveRules" /\ call.user # <<>>) =>
    /\ \A c \in FolderNames(SystemRules) \ FolderNames(call.user) :
         /\ SeqToSet(ExtsOf(res.rules, c)) \cap UserExts(call.user) = {}
         /\ ExtsOf(res.rules, c)
              = SelectSeq(ExtsOf(SystemRules, c), LAMBDA e : e \notin UserExts(call.user))
    /\ \A i \in 1..Len(call.user) :
         ExtsOf(res.rules, call.user[i].folder) = call.user[i].exts
    /\ FolderNames(res.rules) = FolderNames(SystemRules) \cup FolderNames(call.user)
    /\ Len(res.rules) = Cardinality(FolderNames(res.rules))
    /\ res.mediaTypes = SystemRules
\* the user gave the default category Documents a list of its own, with an
\* extension of Images in upper case: Documents has that list only, and
\* Images lost the extension
C19_Witness ==
  /\ call.op = "resolveRules"
  /\ call.user = <<Rule(nDocuments, <<eJPG>>)>>
  /\ ExtsOf(res.rules, nDocuments) = <<eJPG>>
  /\ ExtsOf(res.rules, nImages) = <<ePng>>


\* How many of the first i files have the name of the i-th.
Nth(files, i) == Cardinality({j \in 1..i : files[j].name = files[i].name})
\* The name with -(k) put before its extension.
Numbered(name, k) ==
  SubSeq(name, 1, Len(name) - Len(ExtName(name)))
    \o <<"-", "(">> \o NumStr(k) \o <<")">> \o ExtName(name)

\* C20: under the conflict strategy 'rename', among the files that share one
\* name the first keeps the name and the k-th (k >= 2) is planned to the
\* name with -(k) before its extension: -(2), -(3), -(4), none skipped and
\* none repeated.
C20_RenameNumbersInOrder ==
  (call.op = "resolveNames" /\ call.conflict = "rename") =>
    \A i \in 1..Len(call.files) :
      (\E j \in 1..Len(call.files) : j # i /\ call.files[j].name = call.files[i].name)
        => Base(res.plan[i].dest)
             = IF Nth(call.files, i) = 1 THEN call.files[i].name
               ELSE Numbered(call.files[i].name, Nth(call.files, i))


\* The paths of a sequence of file records.
PathsOf(files) == {files[i].fullPath : i \in 1..Len(files)}
\* The members of the group of a file: the scanned files of its content.
MembersWith(p) ==
  {q \in ScannedPaths(before, call.ignorePatterns) : before[q].data = before[p].data}

\* C21: in every duplicate group that dedupe reports, the canonical file is
\* one member and is not among the duplicates, the canonical file and the
\* duplicates are exactly the members of the group (no file twice), and
\* after a dedupe that is no dry run the canonical file is on disk as it was.
C21_CanonicalKept ==
  (call.op = "dedupe" /\ ~res.threw) =>
    \A i \in 1..Len(res.groups) :
      LET g == res.groups[i]
      IN /\ g.canonical.fullPath \notin PathsOf(g.duplicates)
         /\ {g.canonical.fullPath} \cup PathsOf(g.duplicates) = MembersWith(g.canonical.fullPath)
         /\ Cardinality(PathsOf(g.duplicates)) = Len(g.duplicates)
         /\ ~call.dryRun => /\ g.canonical.fullPath \in DOMAIN fs
                            /\ fs[g.canonical.fullPath] = before[g.canonical.fullPath]
\* a group of three under the strategy newest, on a real run: the two older
\* files went and the newest stayed
C21_Witness ==
  /\ call.op = "dedupe" /\ call.strategy = "newest" /\ ~call.dryRun /\ faults = {}
  /\ Len(res.groups) = 1 /\ Len(res.groups[1].duplicates) = 2
  /\ res.groups[1].canonical.mtime = 2
  /\ res.groups[1].canonical.fullPath \in DOMAIN fs
  /\ \A q \in PathsOf(res.groups[1].duplicates) : q \notin DOMAIN fs


\* The place of a scanned file in the order the walk found the files in.
WalkIndex(p) ==
  CHOOSE i \in 1..Len(Walk(before, Root, 0, 0).files) :
    Walk(before, Root, 0, 0).files[i].fullPath = p
\* The file of the set that the walk found first.
Earliest(S) == CHOOSE p \in S : \A q \in S : WalkIndex(p) <= WalkIndex(q)
\* The strategy in force: the one given, and with none given 'canonical'
\* when a canonicalPath is set and 'first' otherwise.
StrategyInForce ==
  IF call.strategy # "" THEN call.strategy
  ELSE IF call.canonicalPath # <<>> THEN "canonical" ELSE "first"
UnderCanonicalPath(S) == {p \in S : StartsWith(PathString(p), call.canonicalPath)}

\* C22: with no strategy given the strategy is 'canonical' when
\* canonicalPath is set and 'first' otherwise; under 'canonical' (with a
\* canonicalPath) the canonical file of a group is its first member in
\* traversal order whose path starts with canonicalPath, and its first
\* member when none does; under 'first' it is the member found earliest.
C22_CanonicalAndFirst ==
  (/\ call.op = "dedupe" /\ ~res.threw
   /\ \/ StrategyInForce = "first"
      \/ StrategyInForce = "canonical" /\ call.canonicalPath # <<>>)
    => \A i \in 1..Len(res.groups) :
         LET members == MembersWith(res.groups[i].canonical.fullPath)
         IN res.groups[i].canonical.fullPath
              = IF StrategyInForce = "canonical" /\ UnderCanonicalPath(members) # {}
                THEN Earliest(UnderCanonicalPath(members))
                ELSE Earliest(members)
\* no strategy given and a canonicalPath set: the canonical file is the one
\* under that path, although the walk found another member first
C22_Witness ==
  /\ call.op = "dedupe" /\ call.strategy = "" /\ call.canonicalPath = PathString(DirX)
  /\ Len(res.groups) = 1
  /\ IsPrefix(DirX, res.groups[1].canonical.fullPath)
  /\ \E q \in PathsOf(res.groups[1].duplicates) :
       WalkIndex(q) < WalkIndex(res.groups[1].canonical.fullPath)


\* What a strategy compares, made so that the least is the best: the
\* modification time or the length of the path, negated for newest and
\* longest-path.
Rank(strategy, p) ==
  CASE strategy = "oldest" -> before[p].mtime
    [] strategy = "newest" -> 0 - before[p].mtime
    [] strategy = "shortest-path" -> Len(PathString(p))
    [] OTHER -> 0 - Len(PathString(p))
Best(strategy, S) == {p \in S : \A q \in S : Rank(strategy, p) <= Rank(strategy, q)}

\* C23: under oldest, newest, shortest-path and longest-path the canonical
\* file of a group is the first member in group order that has the least
\* mtime, the greatest mtime, the least path length or the greatest path
\* length: on a tie the earlier member wins.
C23_ExtremeFirstWins ==
  (/\ call.op = "dedupe" /\ ~res.threw
   /\ call.strategy \in {"oldest", "newest", "shortest-path", "longest-path"})
    => \A i \in 1..Len(res.groups) :
         res.groups[i].canonical.fullPath
           = Earliest(Best(call.strategy, MembersWith(res.groups[i].canonical.fullPath)))
\* under oldest, a group of three in which two members tie for the least
\* mtime: the earlier of the two is canonical
C23_Witness ==
  /\ call.op = "dedupe" /\ call.strategy = "oldest"
  /\ Len(res.groups) = 1 /\ Len(res.groups[1].duplicates) = 2
  /\ \E q \in PathsOf(res.groups[1].duplicates) :
       /\ before[q].mtime = res.groups[1].canonical.mtime
       /\ WalkIndex(res.groups[1].canonical.fullPath) < WalkIndex(q)
  /\ \E q \in PathsOf(res.groups[1].duplicates) :
       before[q].mtime > res.groups[1].canonical.mtime


\* The duplicates of every reported group, the ones no longer on disk, and
\* the entries of the error list that name a duplicate.
AllDuplicates == UNION {PathsOf(res.groups[i].duplicates) : i \in 1..Len(res.groups)}
Unlinked == {p \in AllDuplicates : p \notin DOMAIN fs}
DeletionErrors == {i \in 1..Len(res.errors) : res.errors[i].file \in AllDuplicates}
RECURSIVE SizeOfAll(_)
SizeOfAll(S) ==
  IF S = {} THEN 0
  ELSE LET p == CHOOSE q \in S : TRUE IN Len(before[p].data) + SizeOfAll(S \ {p})

\* C24: in a dedupe that is not a dry run, a duplicate whose deletion fails
\* is recorded once in the error list under its path and stays on disk, and
\* the other duplicates are still deleted: filesDeleted is the number of
\* duplicates unlinked, spaceSaved the sum of their sizes, and filesDeleted
\* plus the number of deletion errors is the number of duplicates in the
\* reported groups.
C24_FailedDeletionIsolated ==
  (call.op = "dedupe" /\ ~call.dryRun /\ ~res.threw)
    => /\ \A p \in AllDuplicates :
            IF Fails("unlink", p)
            THEN /\ p \in DOMAIN fs /\ fs[p] = before[p]
                 /\ Cardinality({i \in DeletionErrors : res.errors[i].file = p}) = 1
            ELSE /\ p \notin DOMAIN fs
                 /\ \A i \in DeletionErrors : res.errors[i].file # p
       /\ res.filesDeleted = Cardinality(Unlinked)
       /\ res.spaceSaved = SizeOfAll(Unlinked)
       /\ res.filesDeleted + Cardinality(DeletionErrors) = Cardinality(AllDuplicates)
\* a group of three whose first duplicate could not be unlinked and whose
\* second duplicate was
C24_Witness ==
  /\ call.op = "dedupe" /\ ~call.dryRun /\ ~res.threw
  /\ Len(res.groups) = 1 /\ Len(res.groups[1].duplicates) = 2
  /\ Fails("unlink", res.groups[1].duplicates[1].fullPath)
  /\ res.groups[1].duplicates[1].fullPath \in DOMAIN fs
  /\ res.groups[1].duplicates[2].fullPath \notin DOMAIN fs
  /\ res.filesDeleted = 1 /\ Cardinality(DeletionErrors) = 1


\* C25: move(src, dest) between two paths completes when the rename works
\* and when it fails with EXDEV, where the source is copied to dest + ".tmp",
\* the copy renamed onto dest and the source unlinked: after a move that
\* returned, dest holds the content of src, src is gone and there is no
\* dest + ".tmp". A rename that fails with another code makes move throw
\* that code with the source in place with its content, nothing copied and
\* the destination as it was.
C25_CrossDeviceFallback ==
  (call.op = "move" /\ call.src # call.dest)
    => LET src == call.src
           dest == call.dest
           tmp == TmpOf(dest)
       IN /\ ~res.threw
               => /\ IsFileAt(fs, dest) /\ fs[dest] = before[src]
                  /\ src \notin DOMAIN fs
                  /\ tmp \notin DOMAIN fs
          /\ (~Fails("rename", src) \/ FailCode("rename", src) = "EXDEV") => ~res.threw
          /\ (Fails("rename", src) /\ FailCode("rename", src) # "EXDEV")
               => /\ res.threw /\ res.msg = FailCode("rename", src)
                  /\ src \in DOMAIN fs /\ fs[src] = before[src]
                  /\ tmp \notin DOMAIN fs
                  /\ dest \in DOMAIN fs <=> dest \in DOMAIN before
                  /\ dest \in DOMAIN before => fs[dest] = before[dest]
\* a move whose rename failed with EXDEV and that returned, into a directory
\* it had to create
C25_Witness ==
  /\ call.op = "move" /\ call.src # call.dest /\ ~res.threw
  /\ Fails("rename", call.src) /\ FailCode("rename", call.src) = "EXDEV"
  /\ Parent(call.dest) \notin DOMAIN before
  /\ IsFileAt(fs, call.dest) /\ fs[call.dest] = before[call.src]
  /\ call.src \notin DOMAIN fs


\* C26: findLargeFiles reports the errors of its walk: after a call that
\* returned, the errors of the result are the entries that walk(root) gave
\* for the tree, in the same number.
C26_LargeFilesReportsWalkErrors ==
  (call.op = "findLargeFiles" /\ ~res.threw)
    => LET w == Walk(before, call.root, 0, 0)
       IN w.errors # <<>> => (res.errors # <<>> /\ res.errors[1] = w.errors)


\* C27: under the conflict strategy 'rename' the destinations that
\* resolveNames plans are pairwise distinct, for every list of files, a list
\* with a file named a-(2).txt beside two files named a.txt included.
C27_RenamePlansDistinct ==
  (call.op = "resolveNames" /\ call.conflict = "rename") =>
    \A i, j \in 1..Len(res.plan) : res.plan[i].dest = res.plan[j].dest => i = j


\* C28: resolveNames keeps the name of a file: a file whose name no other
\* file of the list has is planned to <root>/<its name> unchanged, under
\* every conflict strategy and for every name (without extension, a
\* dotfile, with an upper-case extension), so that a file directly under
\* the root is planned onto itself.
C28_NamesPreserved ==
  call.op = "resolveNames" =>
    \A i \in 1..Len(call.files) :
      (\A j \in 1..Len(call.files) : call.files[j].name = call.files[i].name => j = i)
        => /\ res.plan[i].dest = Join(call.destRoot, call.files[i].name)
           /\ call.files[i].dir = call.destRoot => res.plan[i].dest = res.plan[i].src

\* The files that flatten scanned outside the root, and the place in the
\* root that the plan gives a file of the trees of SpecFlatten.
ScannedNested ==
  {q \in PathsOf(Walk(before, Root, call.depth, 0).files) : Parent(q) # Root}
RootPlace(p) == Join(Root, Base(p))

\* C29: flatten with 'skip' (no dry run) never overwrites: a scanned file
\* whose destination in the root is taken, by a file that was in the root
\* or by a file moved there earlier in the run, stays where it is, and a
\* file that was in the root keeps its content. With 'overwrite' (no call
\* failing) the destination ends up with the content of the last scanned
\* file of that name.
C29_SkipNeverOverwrites ==
  (call.op = "flatten" /\ ~call.dryRun /\ ~res.threw) =>
    /\ call.conflict = "skip" =>
         \A p \in ScannedNested :
           /\ RootPlace(p) \in FilesOf(before)
                => /\ p \in DOMAIN fs /\ fs[p] = before[p]
                   /\ fs[RootPlace(p)] = before[RootPlace(p)]
           /\ (\E q \in ScannedNested :
                 /\ q # p /\ Base(q) = Base(p) /\ WalkIndex(q) < WalkIndex(p)
                 /\ q \notin DOMAIN fs)
                => p \in DOMAIN fs /\ fs[p] = before[p]
    /\ (call.conflict = "overwrite" /\ faults = {}) =>
         \A p \in ScannedNested :
           (\A q \in ScannedNested : Base(q) = Base(p) => WalkIndex(q) <= WalkIndex(p))
             => fs[RootPlace(p)] = before[p]


\* C30: an archive that is no dry run loses no file: each file older than
\* the threshold is afterwards either under the archive path, under its
\* name and as it was, or still at its place as it was; two old files of
\* one name in two directories are both kept.
C30_ArchiveLosesNoFile ==
  (call.op = "archive" /\ ~call.dryRun /\ Trim(call.archivePath) # <<>>
   /\ call.durationDays > 0)
    => LET old == OldFiles(before, call.durationDays)
           archivePath == SplitPath(call.archivePath, <<>>, <<>>)
       IN \A i \in 1..Len(old) :
            LET p == old[i].fullPath
                dest == Join(archivePath, Base(p))
            IN \/ p \in DOMAIN fs /\ fs[p] = before[p]
               \/ dest \in DOMAIN fs /\ fs[dest] = before[p]

====
